---- MODULE Spec2Model ----
(***************************************************************************)
(* Model of src/src/strategies/backtest.ts: the Fear & Greed backtest      *)
(* engine (runBacktest, runAllStrategyVariations and their helpers).       *)
(*                                                                         *)
(* Numbers.  Every quantity of the engine (cash, shares, prices, ...) is a *)
(* JavaScript number, an IEEE-754 binary floating point value that is      *)
(* rounded to nearest, ties to even, after every single operation.  The    *)
(* model keeps exactly that semantics; only the width of the significand   *)
(* is a bound of the model (Precision bits instead of 53), because TLC's   *)
(* integers have 32 bits.  A finite number is the record                   *)
(* [k |-> "fin", m |-> m, e |-> e] standing for m * 2^e with m odd (or     *)
(* m = 0, e = 0), so that equal numbers are equal records.  NaN and the    *)
(* infinities are the records NaN, PosInf and NegInf.                      *)
(*                                                                         *)
(* Time.  A Date is its getTime() value counted in ticks of                *)
(* 1 / TicksPerDay day instead of milliseconds.                            *)
(***************************************************************************)
EXTENDS Integers, Sequences, FiniteSets, TLC

(***************************************************************************)
(* Bounds of the model.                                                    *)
(***************************************************************************)
\* width of the significand, in bits
Precision == 12
\* longest price series of the main specification
MaxLen == 3

(***************************************************************************)
(* Floating point arithmetic (the JavaScript operators + - * / and the     *)
(* comparisons on numbers).                                                *)
(***************************************************************************)
Pow2(n) == 2 ^ n

RECURSIVE BitLen(_)
\* number of bits of the natural number n
BitLen(n) == IF n = 0 THEN 0 ELSE 1 + BitLen(n \div 2)

Abs(n) == IF n < 0 THEN -n ELSE n

Min(a, b) == IF a < b THEN a ELSE b

Max(a, b) == IF a < b THEN b ELSE a

NaN == [k |-> "nan", m |-> 0, e |-> 0]

PosInf == [k |-> "inf", m |-> 1, e |-> 0]

NegInf == [k |-> "inf", m |-> -1, e |-> 0]

Zero == [k |-> "fin", m |-> 0, e |-> 0]

IsFinite(x) == x.k = "fin"

RECURSIVE Canon(_, _)
\* the record of m * 2^e with the trailing zero bits of m moved into e
Canon(m, e) ==
    IF m = 0 THEN Zero
    ELSE IF m % 2 = 0 THEN Canon(m \div 2, e + 1)
    ELSE [k |-> "fin", m |-> m, e |-> e]

\* n \div 2^sh rounded to nearest, ties to even; sticky: bits were already lost
RoundShift(n, sh, sticky) ==
    LET q == n \div Pow2(sh)
        r == n % Pow2(sh)
        half == Pow2(sh - 1)
        up == r > half \/ (r = half /\ (sticky \/ q % 2 = 1))
    IN  IF up THEN q + 1 ELSE q

\* sign * n * 2^e (n >= 0) rounded to Precision bits
RoundTo(sign, n, e, sticky) ==
    LET len == BitLen(n)
    IN  IF len <= Precision
        THEN Canon(sign * n, e)
        ELSE Canon(sign * RoundShift(n, len - Precision, sticky), e + (len - Precision))

\* the number nearest to the integer n
FromInt(n) == RoundTo(IF n < 0 THEN -1 ELSE 1, Abs(n), 0, FALSE)

\* floor(log2 |x|) of a finite non-zero x
Exponent(x) == x.e + BitLen(Abs(x.m)) - 1

Neg(x) ==
    IF x.k = "nan" THEN NaN ELSE [x EXCEPT !.m = -x.m]

\* x + y for finite x and y
AddFinite(x, y) ==
    IF x.m = 0 THEN y
    ELSE IF y.m = 0 THEN x
    ELSE IF Exponent(x) - Exponent(y) > Precision + 1 THEN x
    ELSE IF Exponent(y) - Exponent(x) > Precision + 1 THEN y
    ELSE LET e == Min(x.e, y.e)
             n == x.m * Pow2(x.e - e) + y.m * Pow2(y.e - e)
         IN  RoundTo(IF n < 0 THEN -1 ELSE 1, Abs(n), e, FALSE)

\* JavaScript x + y
Add(x, y) ==
    IF x.k = "nan" \/ y.k = "nan" THEN NaN
    ELSE IF x.k = "inf" /\ y.k = "inf" THEN (IF x.m = y.m THEN x ELSE NaN)
    ELSE IF x.k = "inf" THEN x
    ELSE IF y.k = "inf" THEN y
    ELSE AddFinite(x, y)

\* JavaScript x - y
Sub(x, y) == Add(x, Neg(y))

Sign(x) == IF x.m < 0 THEN -1 ELSE IF x.m > 0 THEN 1 ELSE 0

\* JavaScript x * y
Mul(x, y) ==
    IF x.k = "nan" \/ y.k = "nan" THEN NaN
    ELSE IF x.k = "inf" \/ y.k = "inf"
         THEN (IF Sign(x) * Sign(y) = 0 THEN NaN
               ELSE IF Sign(x) * Sign(y) > 0 THEN PosInf ELSE NegInf)
    ELSE RoundTo(IF Sign(x) * Sign(y) < 0 THEN -1 ELSE 1,
                 Abs(x.m) * Abs(y.m), x.e + y.e, FALSE)

\* x / y for finite x and finite non-zero y
DivFinite(x, y) ==
    IF x.m = 0 THEN Zero
    ELSE LET sh == Max(0, Precision + 2 + BitLen(Abs(y.m)) - BitLen(Abs(x.m)))
             n == Abs(x.m) * Pow2(sh)
             q == n \div Abs(y.m)
             sticky == n % Abs(y.m) # 0
         IN  RoundTo(Sign(x) * Sign(y), q, x.e - y.e - sh, sticky)

\* JavaScript x / y
Div(x, y) ==
    IF x.k = "nan" \/ y.k = "nan" THEN NaN
    ELSE IF x.k = "inf" /\ y.k = "inf" THEN NaN
    ELSE IF x.k = "inf" THEN (IF Sign(x) * (IF y.m < 0 THEN -1 ELSE 1) > 0 THEN PosInf ELSE NegInf)
    ELSE IF y.k = "inf" THEN Zero
    ELSE IF y.m = 0
         THEN (IF x.m = 0 THEN NaN ELSE IF x.m > 0 THEN PosInf ELSE NegInf)
    ELSE DivFinite(x, y)

\* JavaScript x < y (false when either is NaN)
Lt(x, y) ==
    /\ x.k # "nan"
    /\ y.k # "nan"
    /\ x # y
    /\ IF x.k = "inf" THEN x.m < 0
       ELSE IF y.k = "inf" THEN y.m > 0
       ELSE Sign(AddFinite(x, Neg(y))) < 0

\* JavaScript x > y
Gt(x, y) == Lt(y, x)

\* JavaScript x <= y
Le(x, y) == x.k # "nan" /\ y.k # "nan" /\ (x = y \/ Lt(x, y))

\* JavaScript x >= y
Ge(x, y) == Le(y, x)

\* the number nearest to the fraction n / d: a decimal literal such as 0.3
Lit(n, d) == Div(FromInt(n), FromInt(d))

(***************************************************************************)
(* Program constants (backtest.ts lines 40-68).  FEAR_THRESHOLD and        *)
(* GREED_THRESHOLD are read from the environment once, at module load; the *)
(* model takes the environment without them, i.e. the defaults.            *)
(***************************************************************************)
DEFAULT_FEAR_THRESHOLD == 40

DEFAULT_GREED_THRESHOLD == 85

EXTREME_FEAR_THRESHOLD == 20

EXTREME_GREED_THRESHOLD == 80

FEAR_THRESHOLD == DEFAULT_FEAR_THRESHOLD

GREED_THRESHOLD == DEFAULT_GREED_THRESHOLD

\* 0.4
ALLOCATION_PERCENTAGE == Lit(4, 10)

\* 0.3
SELL_PERCENTAGE == Lit(3, 10)

\* 0.10
MIN_PROFIT_PERCENT == Lit(10, 100)

TREND_MA_PERIOD == 50

DEFAULT_WEEKLY_CONTRIBUTION == 500

DAYS_IN_WEEK == 7

\* ticks per day: the 1000 * 60 * 60 * 24 milliseconds of the source
TicksPerDay == 2

\* the order of the variants in runAllStrategyVariations
strategyVariants == <<"default", "extreme-only", "extreme-fear-hold", "combined">>

(***************************************************************************)
(* null and undefined                                                      *)
(***************************************************************************)
\* a Date | null that is null
NullDate == -1

\* a number | null that is null
NullNumber == [k |-> "null", m |-> 0, e |-> 0]

\* the value of fearGreedToday?.value when fearGreedToday is null: undefined
NoValue == -1

\* a FearGreedDataPoint | null that is null
NullPoint == [date |-> NullDate, value |-> NoValue]

\* date.toISOString().split('T')[0]: the UTC calendar day of a Date
DateStr(date) == date \div TicksPerDay

(***************************************************************************)
(* Helpers of the engine                                                   *)
(***************************************************************************)
\* fearGreedData.find(item => same calendar day): the lowest index, or 0
ExactMatchIndex(date, fearGreedData) ==
    LET hits == {j \in 1..Len(fearGreedData) :
                    DateStr(fearGreedData[j].date) = DateStr(date)}
    IN  IF hits = {} THEN 0 ELSE CHOOSE j \in hits : \A h \in hits : j <= h

RECURSIVE ClosestIndex_LastOnTies(_, _, _, _, _)
\* the linear scan taking the later point on equal differences
ClosestIndex_LastOnTies(date, fearGreedData, j, closestIndex, minDiff) ==
    IF j > Len(fearGreedData) THEN closestIndex
    ELSE LET diff == Abs(fearGreedData[j].date - date)
         IN  IF minDiff = -1 \/ diff <= minDiff
             THEN ClosestIndex_LastOnTies(date, fearGreedData, j + 1, j, diff)
             ELSE ClosestIndex_LastOnTies(date, fearGreedData, j + 1, closestIndex, minDiff)

RECURSIVE ClosestIndex(_, _, _, _, _)
\* the linear scan of lines 95-104 from index j on; minDiff = -1 is Infinity
ClosestIndex(date, fearGreedData, j, closestIndex, minDiff) ==
    IF j > Len(fearGreedData) THEN closestIndex
    ELSE LET diff == Abs(fearGreedData[j].date - date)
         IN  IF minDiff = -1 \/ diff < minDiff
             THEN ClosestIndex(date, fearGreedData, j + 1, j, diff)
             ELSE ClosestIndex(date, fearGreedData, j + 1, closestIndex, minDiff)

findClosestFearGreedData(date, fearGreedData) ==
    IF Len(fearGreedData) = 0 THEN NullPoint
    ELSE IF ExactMatchIndex(date, fearGreedData) # 0
         THEN fearGreedData[ExactMatchIndex(date, fearGreedData)]
    ELSE LET closestIndex == ClosestIndex(date, fearGreedData, 1, 0, -1)
         IN  IF closestIndex >= 1 THEN fearGreedData[closestIndex] ELSE NullPoint

RECURSIVE DrawdownLoop_Last(_, _, _, _)
\* the loop of calculateMaxDrawdown keeping the last drawdown, not the largest
DrawdownLoop_Last(equityCurve, j, peak, maxDrawdown) ==
    IF j > Len(equityCurve) THEN maxDrawdown
    ELSE LET value == equityCurve[j]
         IN  IF Gt(value, peak)
             THEN DrawdownLoop_Last(equityCurve, j + 1, value, maxDrawdown)
             ELSE IF Gt(peak, Zero)
             THEN DrawdownLoop_Last(equityCurve, j + 1, peak, Div(Sub(peak, value), peak))
             ELSE DrawdownLoop_Last(equityCurve, j + 1, peak, maxDrawdown)

\* lines 132-134: the peak after one iteration of the loop
PeakAfter(peak, value) == IF Gt(value, peak) THEN value ELSE peak

\* lines 132-137: maxDrawdown after one iteration of the loop; Math.max
\* returns NaN when an operand is NaN
MaxDrawdownAfter(peak, maxDrawdown, value) ==
    IF Gt(value, peak) THEN maxDrawdown
    ELSE IF Gt(peak, Zero)
    THEN LET drawdown == Div(Sub(peak, value), peak)
         IN  IF drawdown.k = "nan" THEN NaN
             ELSE IF Gt(drawdown, maxDrawdown) THEN drawdown ELSE maxDrawdown
    ELSE maxDrawdown

RECURSIVE DrawdownLoop(_, _, _, _)
\* the loop of calculateMaxDrawdown from (1-based) index j on; once peak or
\* maxDrawdown is NaN no later iteration changes maxDrawdown
DrawdownLoop(equityCurve, j, peak, maxDrawdown) ==
    IF j > Len(equityCurve) \/ peak.k = "nan" \/ maxDrawdown.k = "nan" THEN maxDrawdown
    ELSE DrawdownLoop(equityCurve, j + 1, PeakAfter(peak, equityCurve[j]),
                      MaxDrawdownAfter(peak, maxDrawdown, equityCurve[j]))

calculateMaxDrawdown(equityCurve) ==
    IF Len(equityCurve) = 0 THEN Zero
    ELSE DrawdownLoop(equityCurve, 1, equityCurve[1], Zero)

RECURSIVE SumCloses(_, _, _, _)
\* the loop of lines 158-163: sum plus data[j..to].close, added in index order
SumCloses(data, j, to, sum) ==
    IF j > to \/ sum.k = "nan" THEN sum
    ELSE SumCloses(data, j + 1, to, Add(sum, data[j].close))

\* endIndex is the 0-based index of the source; null is NullNumber
calculateMovingAverage(data, periods, endIndex) ==
    IF endIndex < periods - 1 \/ periods <= 0 THEN NullNumber
    ELSE LET first == Max(0, endIndex - periods + 1)
             count == endIndex - first + 1
         IN  IF count > 0
             THEN Div(SumCloses(data, first + 1, endIndex + 1, Zero), FromInt(count))
             ELSE NullNumber

\* !x for a number | null: null, 0 and NaN are falsy
Falsy(x) == x.k = "null" \/ x.k = "nan" \/ (x.k = "fin" /\ x.m = 0)

\* currentIndex is the 0-based index of the source
isInDowntrend(data, currentIndex) ==
    IF currentIndex < TREND_MA_PERIOD THEN FALSE
    ELSE LET ma == calculateMovingAverage(data, TREND_MA_PERIOD, currentIndex)
         IN  IF Falsy(ma) THEN FALSE
             ELSE IF Falsy(data[currentIndex + 1].close) THEN FALSE
             ELSE Lt(data[currentIndex + 1].close, ma)

RECURSIVE SumGaps(_, _)
\* the sum of the gaps marketData[i] - marketData[i-1] for the 0-based i = 1..last, in ticks
SumGaps(marketData, last) ==
    IF last < 1 THEN 0
    ELSE SumGaps(marketData, last - 1)
         + (marketData[last + 1].date - marketData[last].date)

\* The gaps are whole ticks and the thresholds whole days, so the comparison
\* of the rounded average with 20 and 5 is the comparison of the exact sums.
determineCooldownPeriod(marketData) ==
    IF Len(marketData) < 2 THEN 20
    ELSE LET last == Min(10, Len(marketData)) - 1
             sum == SumGaps(marketData, last)
         IN  IF sum > 20 * last * TicksPerDay THEN 1
             ELSE IF sum > 5 * last * TicksPerDay THEN 3
             ELSE 15

\* shouldInvestWeeklyAmount with the default variant reading the greed threshold
shouldInvestWeeklyAmount_Greed(fearGreedValue, inDowntrend, strategyVariant) ==
    IF fearGreedValue = NoValue THEN FALSE
    ELSE IF strategyVariant = "default" /\ fearGreedValue <= GREED_THRESHOLD THEN TRUE
    ELSE IF strategyVariant = "extreme-only" /\ fearGreedValue <= EXTREME_FEAR_THRESHOLD THEN TRUE
    ELSE IF strategyVariant = "extreme-fear-hold" /\ fearGreedValue <= EXTREME_FEAR_THRESHOLD THEN TRUE
    ELSE IF strategyVariant = "combined"
            /\ (fearGreedValue <= FEAR_THRESHOLD \/ fearGreedValue <= EXTREME_FEAR_THRESHOLD) THEN TRUE
    ELSE FALSE

\* lines 218-252
shouldInvestWeeklyAmount(fearGreedValue, inDowntrend, strategyVariant) ==
    IF fearGreedValue = NoValue THEN FALSE
    ELSE IF strategyVariant = "default" /\ fearGreedValue <= FEAR_THRESHOLD THEN TRUE
    ELSE IF strategyVariant = "extreme-only" /\ fearGreedValue <= EXTREME_FEAR_THRESHOLD THEN TRUE
    ELSE IF strategyVariant = "extreme-fear-hold" /\ fearGreedValue <= EXTREME_FEAR_THRESHOLD THEN TRUE
    ELSE IF strategyVariant = "combined"
            /\ (fearGreedValue <= FEAR_THRESHOLD \/ fearGreedValue <= EXTREME_FEAR_THRESHOLD) THEN TRUE
    ELSE IF inDowntrend /\ fearGreedValue > EXTREME_FEAR_THRESHOLD THEN FALSE
    ELSE FALSE

shouldInvestDouble(fearGreedValue) ==
    fearGreedValue # NoValue /\ fearGreedValue <= EXTREME_FEAR_THRESHOLD

(***************************************************************************)
(* runBacktest: the local variables of one call are the record `run`.      *)
(***************************************************************************)
strategyNameOf(strategyVariant) ==
    CASE strategyVariant = "extreme-only" -> "Extreme Fear & Greed Only"
      [] strategyVariant = "extreme-fear-hold" -> "Extreme Fear Buy & Hold"
      [] strategyVariant = "combined" -> "Combined Approach"
      [] OTHER -> "Fear & Greed"

\* the counters of debugInfo (lines 289-319) that the run updates
InitialDebugInfo(a) ==
    [ totalPossibleTrades |-> 0,
      noFearGreedData |-> 0,
      executedBuys |-> 0,
      executedSells |-> 0,
      sellOpportunities |-> 0,
      insufficientProfit |-> 0,
      strategyVariant |-> a.strategyVariant,
      weeklyContribution |-> a.weeklyContribution,
      useLumpSum |-> a.useLumpSum,
      weeklyContributionsSkipped |-> 0,
      weeklyContributionsInvested |-> 0,
      doubleInvestments |-> 0 ]

\* the locals initialised with initialCapital counted as invested in both modes
InitialRun_CapitalCounted(a) ==
    [ i |-> 0,
      cooldownPeriods |-> determineCooldownPeriod(a.marketData),
      trades |-> << >>,
      cash |-> IF a.useLumpSum THEN a.initialCapital ELSE Zero,
      shares |-> Zero,
      equityCurve |-> << IF a.useLumpSum THEN a.initialCapital ELSE Zero >>,
      lastBuyDate |-> NullDate,
      lastBuyPrice |-> NullNumber,
      lastSellDate |-> NullDate,
      totalInvested |-> a.initialCapital,
      skippedContributions |-> 0,
      totalContributions |-> 0,
      accumulatedCash |-> Zero,
      buyAndHoldCash |-> IF a.useLumpSum THEN a.initialCapital ELSE Zero,
      buyAndHoldShares |-> IF a.useLumpSum
                           THEN Div(a.initialCapital, a.marketData[1].close)
                           ELSE Zero,
      lastContributionDate |-> a.marketData[1].date,
      debugInfo |-> InitialDebugInfo(a),
      injected |-> IF a.useLumpSum THEN a.initialCapital ELSE Zero ]

\* the locals of runBacktest as lines 332-387 initialise them; i is the loop index.
\* injected is a history variable: the money put into cash from outside the
\* ledger so far (line 362, and every cash += of lines 439 and 573)
InitialRun(a) ==
    [ i |-> 0,
      cooldownPeriods |-> determineCooldownPeriod(a.marketData),
      trades |-> << >>,
      cash |-> IF a.useLumpSum THEN a.initialCapital ELSE Zero,
      shares |-> Zero,
      equityCurve |-> << IF a.useLumpSum THEN a.initialCapital ELSE Zero >>,
      lastBuyDate |-> NullDate,
      lastBuyPrice |-> NullNumber,
      lastSellDate |-> NullDate,
      totalInvested |-> IF a.useLumpSum THEN a.initialCapital ELSE Zero,
      skippedContributions |-> 0,
      totalContributions |-> 0,
      accumulatedCash |-> Zero,
      buyAndHoldCash |-> IF a.useLumpSum THEN a.initialCapital ELSE Zero,
      buyAndHoldShares |-> IF a.useLumpSum
                           THEN Div(a.initialCapital, a.marketData[1].close)
                           ELSE Zero,
      lastContributionDate |-> a.marketData[1].date,
      debugInfo |-> InitialDebugInfo(a),
      injected |-> IF a.useLumpSum THEN a.initialCapital ELSE Zero ]

Trade(date, type, price, shares, value, reason) ==
    [date |-> date, type |-> type, price |-> price, shares |-> shares,
     value |-> value, reason |-> reason]

\* "Buy shares immediately" (lines 443-479 and, the same code, 578-604):
\* spend all of cash at the day's close. ENABLE_FRACTIONAL_SHARES is the
\* constant true (line 62), so the Math.floor branches are never taken.
BuyShares(s, currentDay, reason) ==
    IF ~Gt(s.cash, Zero) THEN s
    ELSE LET sharesToBuy == Div(s.cash, currentDay.close)
             cost == Mul(sharesToBuy, currentDay.close)
         IN  IF ~Gt(sharesToBuy, Zero) THEN s
             ELSE [s EXCEPT
                     !.shares = Add(@, sharesToBuy),
                     !.cash = Sub(@, cost),
                     !.lastBuyDate = currentDay.date,
                     !.lastBuyPrice = currentDay.close,
                     !.debugInfo.executedBuys = @ + 1,
                     !.trades = Append(@, Trade(currentDay.date, "buy", currentDay.close,
                                                sharesToBuy, cost, reason))]

\* lines 417-479: the contribution is invested now
InvestContribution(s, a, currentDay, fearGreedToday) ==
    LET doubleInvestment == shouldInvestDouble(fearGreedToday.value)
        contribution == IF doubleInvestment
                        THEN Mul(a.weeklyContribution, FromInt(2))
                        ELSE a.weeklyContribution
        fold == /\ fearGreedToday.value # NoValue
                /\ fearGreedToday.value <= EXTREME_FEAR_THRESHOLD
                /\ Gt(s.accumulatedCash, Zero)
        amountToInvest == IF fold THEN Add(contribution, s.accumulatedCash)
                          ELSE contribution
        s1 == [s EXCEPT
                 !.totalInvested = Add(IF fold THEN Add(@, s.accumulatedCash) ELSE @,
                                       a.weeklyContribution),
                 !.accumulatedCash = IF fold THEN Zero ELSE @,
                 !.cash = Add(@, amountToInvest),
                 !.injected = Add(@, amountToInvest),
                 !.debugInfo.doubleInvestments = IF doubleInvestment THEN @ + 1 ELSE @,
                 !.debugInfo.weeklyContributionsInvested = @ + 1]
    IN  BuyShares(s1, currentDay, "Weekly contribution invested")

\* the contribution kept for later without being counted as skipped
DeferContribution_Uncounted(s, a) ==
    [s EXCEPT
       !.accumulatedCash = Add(@, a.weeklyContribution),
       !.debugInfo.weeklyContributionsSkipped = @ + 1]

\* lines 481-485: the contribution is kept for later
DeferContribution(s, a) ==
    [s EXCEPT
       !.accumulatedCash = Add(@, a.weeklyContribution),
       !.skippedContributions = @ + 1,
       !.debugInfo.weeklyContributionsSkipped = @ + 1]

\* the weekly contribution firing only more than a week after the last one
WeeklyContribution_After(s, a, currentDay, fearGreedToday) ==
    IF a.useLumpSum THEN s
    ELSE IF currentDay.date - s.lastContributionDate <= DAYS_IN_WEEK * TicksPerDay THEN s
    ELSE LET s1 == [s EXCEPT
                      !.totalContributions = @ + 1,
                      !.lastContributionDate = currentDay.date,
                      !.buyAndHoldShares =
                          Add(@, Div(Add(s.buyAndHoldCash, a.weeklyContribution),
                                     currentDay.close)),
                      !.buyAndHoldCash = Zero]
             inDowntrend == isInDowntrend(a.marketData, s.i)
         IN  IF shouldInvestWeeklyAmount(fearGreedToday.value, inDowntrend,
                                         a.strategyVariant)
             THEN InvestContribution(s1, a, currentDay, fearGreedToday)
             ELSE DeferContribution(s1, a)

\* the weekly contribution deferred while the day is in a cooldown window
WeeklyContribution_Cooldown(s, a, currentDay, fearGreedToday) ==
    IF a.useLumpSum THEN s
    ELSE IF currentDay.date - s.lastContributionDate < DAYS_IN_WEEK * TicksPerDay THEN s
    ELSE LET s1 == [s EXCEPT
                      !.totalContributions = @ + 1,
                      !.lastContributionDate = currentDay.date,
                      !.buyAndHoldShares =
                          Add(@, Div(Add(s.buyAndHoldCash, a.weeklyContribution),
                                     currentDay.close)),
                      !.buyAndHoldCash = Zero]
             inDowntrend == isInDowntrend(a.marketData, s.i)
             inCooldown ==
                 \/ s.lastBuyDate # NullDate
                    /\ currentDay.date - s.lastBuyDate < s.cooldownPeriods * TicksPerDay
                 \/ s.lastSellDate # NullDate
                    /\ currentDay.date - s.lastSellDate
                          < ((s.cooldownPeriods + 1) \div 2) * TicksPerDay
         IN  IF ~inCooldown /\ shouldInvestWeeklyAmount(fearGreedToday.value, inDowntrend,
                                                        a.strategyVariant)
             THEN InvestContribution(s1, a, currentDay, fearGreedToday)
             ELSE DeferContribution(s1, a)

\* the weekly contribution with a buy and hold ledger that buys only when
\* the strategy invests
WeeklyContribution_BaselineFollows(s, a, currentDay, fearGreedToday) ==
    IF a.useLumpSum THEN s
    ELSE IF currentDay.date - s.lastContributionDate < DAYS_IN_WEEK * TicksPerDay THEN s
    ELSE LET s1 == [s EXCEPT
                      !.totalContributions = @ + 1,
                      !.lastContributionDate = currentDay.date]
             inDowntrend == isInDowntrend(a.marketData, s.i)
         IN  IF shouldInvestWeeklyAmount(fearGreedToday.value, inDowntrend,
                                         a.strategyVariant)
             THEN InvestContribution(
                      [s1 EXCEPT
                         !.buyAndHoldShares =
                             Add(@, Div(Add(s.buyAndHoldCash, a.weeklyContribution),
                                        currentDay.close)),
                         !.buyAndHoldCash = Zero],
                      a, currentDay, fearGreedToday)
             ELSE DeferContribution(s1, a)

\* lines 399-488: the weekly contribution of the day, in periodic mode
WeeklyContribution(s, a, currentDay, fearGreedToday) ==
    IF a.useLumpSum THEN s
    ELSE IF currentDay.date - s.lastContributionDate < DAYS_IN_WEEK * TicksPerDay THEN s
    ELSE LET s1 == [s EXCEPT
                      !.totalContributions = @ + 1,
                      !.lastContributionDate = currentDay.date,
                      !.buyAndHoldShares =
                          Add(@, Div(Add(s.buyAndHoldCash, a.weeklyContribution),
                                     currentDay.close)),
                      !.buyAndHoldCash = Zero]
             inDowntrend == isInDowntrend(a.marketData, s.i)
         IN  IF shouldInvestWeeklyAmount(fearGreedToday.value, inDowntrend,
                                         a.strategyVariant)
             THEN InvestContribution(s1, a, currentDay, fearGreedToday)
             ELSE DeferContribution(s1, a)

\* lines 490-492
PushEquity(s, currentDay) ==
    [s EXCEPT !.equityCurve = Append(@, Add(s.cash, Mul(s.shares, currentDay.close)))]

\* lines 495-496
inBuyCooldown(s, currentDay) ==
    /\ s.lastBuyDate # NullDate
    /\ currentDay.date - s.lastBuyDate < s.cooldownPeriods * TicksPerDay

\* no sell cooldown
inSellCooldown_Never(s, currentDay) == FALSE

\* lines 498-499; Math.ceil(cooldownPeriods / 2) is (cooldownPeriods + 1) \div 2
inSellCooldown(s, currentDay) ==
    /\ s.lastSellDate # NullDate
    /\ currentDay.date - s.lastSellDate < ((s.cooldownPeriods + 1) \div 2) * TicksPerDay

\* lines 517-528
shouldSell(strategyVariant, value) ==
    \/ strategyVariant = "default" /\ value >= GREED_THRESHOLD
    \/ strategyVariant = "extreme-only" /\ value >= EXTREME_GREED_THRESHOLD
    \/ strategyVariant = "combined"
       /\ (value >= GREED_THRESHOLD \/ value >= EXTREME_GREED_THRESHOLD)

\* a sell of a fixed count of 10 shares
ExecuteSell_FixedCount(s, currentDay) ==
    LET sharesToSell == FromInt(10)
        sellValue == Mul(sharesToSell, currentDay.close)
    IN  IF ~Gt(sharesToSell, Zero) THEN s
        ELSE [s EXCEPT
                !.shares = Sub(@, sharesToSell),
                !.cash = Add(@, sellValue),
                !.lastSellDate = currentDay.date,
                !.debugInfo.executedSells = @ + 1,
                !.trades = Append(@, Trade(currentDay.date, "sell", currentDay.close,
                                           sharesToSell, sellValue, "Taking profit"))]

\* lines 536-555: sell a portion of the position
\* the sell with its trade put at the head of the log
ExecuteSell_Prepends(s, currentDay) ==
    LET sharesToSell == Mul(s.shares, SELL_PERCENTAGE)
        sellValue == Mul(sharesToSell, currentDay.close)
    IN  IF ~Gt(sharesToSell, Zero) THEN s
        ELSE [s EXCEPT
                !.shares = Sub(@, sharesToSell),
                !.cash = Add(@, sellValue),
                !.lastSellDate = currentDay.date,
                !.debugInfo.executedSells = @ + 1,
                !.trades = << Trade(currentDay.date, "sell", currentDay.close,
                                    sharesToSell, sellValue, "Taking profit") >> \o @]

ExecuteSell(s, currentDay) ==
    LET sharesToSell == Mul(s.shares, SELL_PERCENTAGE)
        sellValue == Mul(sharesToSell, currentDay.close)
    IN  IF ~Gt(sharesToSell, Zero) THEN s
        ELSE [s EXCEPT
                !.shares = Sub(@, sharesToSell),
                !.cash = Add(@, sellValue),
                !.lastSellDate = currentDay.date,
                !.debugInfo.executedSells = @ + 1,
                !.trades = Append(@, Trade(currentDay.date, "sell", currentDay.close,
                                           sharesToSell, sellValue, "Taking profit"))]

\* SELL STRATEGY with the hold variant treated as the default variant
SellStrategy_HoldSells(s, a, currentDay, fearGreedToday) ==
    IF ~(Gt(s.shares, Zero) /\ s.lastBuyPrice # NullNumber)
    THEN s
    ELSE IF ~(\/ shouldSell(a.strategyVariant, fearGreedToday.value)
              \/ a.strategyVariant = "extreme-fear-hold"
                 /\ fearGreedToday.value >= GREED_THRESHOLD) THEN s
    ELSE LET currentProfit == Div(Sub(currentDay.close, s.lastBuyPrice), s.lastBuyPrice)
             s1 == [s EXCEPT !.debugInfo.sellOpportunities = @ + 1]
         IN  IF Ge(currentProfit, MIN_PROFIT_PERCENT)
             THEN ExecuteSell(s1, currentDay)
             ELSE [s1 EXCEPT !.debugInfo.insufficientProfit = @ + 1]

\* SELL STRATEGY selling on the sentiment alone, whatever the profit
SellStrategy_NoProfitCheck(s, a, currentDay, fearGreedToday) ==
    IF ~(a.strategyVariant # "extreme-fear-hold" /\ Gt(s.shares, Zero)
         /\ s.lastBuyPrice # NullNumber)
    THEN s
    ELSE IF ~shouldSell(a.strategyVariant, fearGreedToday.value) THEN s
    ELSE ExecuteSell([s EXCEPT !.debugInfo.sellOpportunities = @ + 1], currentDay)

\* lines 515-562: SELL STRATEGY
SellStrategy(s, a, currentDay, fearGreedToday) ==
    IF ~(a.strategyVariant # "extreme-fear-hold" /\ Gt(s.shares, Zero)
         /\ s.lastBuyPrice # NullNumber)
    THEN s
    ELSE IF ~shouldSell(a.strategyVariant, fearGreedToday.value) THEN s
    ELSE LET currentProfit == Div(Sub(currentDay.close, s.lastBuyPrice), s.lastBuyPrice)
             s1 == [s EXCEPT !.debugInfo.sellOpportunities = @ + 1]
         IN  IF Ge(currentProfit, MIN_PROFIT_PERCENT)
             THEN ExecuteSell(s1, currentDay)
             ELSE [s1 EXCEPT !.debugInfo.insufficientProfit = @ + 1]

\* no release of the accumulated cash
ReleaseAccumulatedCash_Never(s, a, currentDay, fearGreedToday, inCooldown) == s

\* lines 564-605: accumulated cash is invested during extreme fear
ReleaseAccumulatedCash(s, a, currentDay, fearGreedToday, inCooldown) ==
    IF ~(/\ ~a.useLumpSum
         /\ Gt(s.accumulatedCash, Zero)
         /\ fearGreedToday.value # NoValue
         /\ fearGreedToday.value <= EXTREME_FEAR_THRESHOLD
         /\ ~inCooldown)
    THEN s
    ELSE LET cashToInvest == s.accumulatedCash
             s1 == [s EXCEPT
                      !.cash = Add(@, cashToInvest),
                      !.injected = Add(@, cashToInvest),
                      !.accumulatedCash = Zero,
                      !.totalInvested = Add(@, cashToInvest)]
         IN  BuyShares(s1, currentDay, "Accumulated cash invested")

\* lines 609-623
shouldBuy(strategyVariant, value) ==
    \/ strategyVariant = "default" /\ value <= FEAR_THRESHOLD
    \/ strategyVariant = "extreme-only" /\ value <= EXTREME_FEAR_THRESHOLD
    \/ strategyVariant = "extreme-fear-hold" /\ value <= EXTREME_FEAR_THRESHOLD
    \/ strategyVariant = "combined"
       /\ (value <= FEAR_THRESHOLD \/ value <= EXTREME_FEAR_THRESHOLD)

\* the allocation without the fear level: always ALLOCATION_PERCENTAGE
allocationMultiplier_Flat(value) == ALLOCATION_PERCENTAGE

\* lines 630-640
allocationMultiplier(value) ==
    LET fearLevel == Div(FromInt(Max(0, FEAR_THRESHOLD - value)), FromInt(FEAR_THRESHOLD))
    IN  IF value <= EXTREME_FEAR_THRESHOLD
        THEN Add(ALLOCATION_PERCENTAGE, Mul(fearLevel, Lit(3, 10)))
        ELSE Add(ALLOCATION_PERCENTAGE, Mul(fearLevel, Lit(1, 10)))

\* BUY STRATEGY without the downtrend test of line 626
LumpSumBuy_IgnoresDowntrend(s, a, currentDay, fearGreedToday, inCooldown, inDowntrend) ==
    IF ~(/\ a.useLumpSum
         /\ shouldBuy(a.strategyVariant, fearGreedToday.value)
         /\ Gt(s.cash, Zero)
         /\ ~inCooldown)
    THEN s
    ELSE LET cashToSpend == Mul(s.cash, allocationMultiplier(fearGreedToday.value))
             sharesToBuy == Div(cashToSpend, currentDay.close)
             cost == Mul(sharesToBuy, currentDay.close)
         IN  IF ~Gt(sharesToBuy, Zero) THEN s
             ELSE [s EXCEPT
                     !.shares = Add(@, sharesToBuy),
                     !.cash = Sub(@, cost),
                     !.lastBuyDate = currentDay.date,
                     !.lastBuyPrice = currentDay.close,
                     !.debugInfo.executedBuys = @ + 1,
                     !.trades = Append(@, Trade(currentDay.date, "buy", currentDay.close,
                                                sharesToBuy, cost, "Fear & Greed Index"))]

\* lines 607-677: BUY STRATEGY, lump sum only
LumpSumBuy(s, a, currentDay, fearGreedToday, inCooldown, inDowntrend) ==
    IF ~(/\ a.useLumpSum
         /\ shouldBuy(a.strategyVariant, fearGreedToday.value)
         /\ Gt(s.cash, Zero)
         /\ ~inCooldown
         /\ (\/ a.strategyVariant = "extreme-fear-hold"
             \/ ~inDowntrend
             \/ fearGreedToday.value <= EXTREME_FEAR_THRESHOLD))
    THEN s
    ELSE LET cashToSpend == Mul(s.cash, allocationMultiplier(fearGreedToday.value))
             sharesToBuy == Div(cashToSpend, currentDay.close)
             cost == Mul(sharesToBuy, currentDay.close)
         IN  IF ~Gt(sharesToBuy, Zero) THEN s
             ELSE [s EXCEPT
                     !.shares = Add(@, sharesToBuy),
                     !.cash = Sub(@, cost),
                     !.lastBuyDate = currentDay.date,
                     !.lastBuyPrice = currentDay.close,
                     !.debugInfo.executedBuys = @ + 1,
                     !.trades = Append(@, Trade(currentDay.date, "buy", currentDay.close,
                                                sharesToBuy, cost, "Fear & Greed Index"))]

\* the iteration of the day loop without the continue of lines 504-507
DayStep_NoContinue(s, a) ==
    LET currentDay == a.marketData[s.i + 1]
        fearGreedToday == findClosestFearGreedData(currentDay.date, a.fearGreedData)
        s0 == [s EXCEPT !.debugInfo.totalPossibleTrades = @ + 1]
        s1 == PushEquity(WeeklyContribution(s0, a, currentDay, fearGreedToday), currentDay)
        inCooldown == inBuyCooldown(s1, currentDay) \/ inSellCooldown(s1, currentDay)
        inDowntrend == isInDowntrend(a.marketData, s.i)
        s2 == SellStrategy(s1, a, currentDay, fearGreedToday)
        s3 == ReleaseAccumulatedCash(s2, a, currentDay, fearGreedToday, inCooldown)
        s4 == LumpSumBuy(s3, a, currentDay, fearGreedToday, inCooldown, inDowntrend)
    IN  [s4 EXCEPT !.i = @ + 1,
                   !.debugInfo.noFearGreedData =
                       IF fearGreedToday = NullPoint THEN @ + 1 ELSE @]

\* lines 390-678: one iteration of the day loop, for the 0-based index s.i
DayStep(s, a) ==
    LET currentDay == a.marketData[s.i + 1]
        fearGreedToday == findClosestFearGreedData(currentDay.date, a.fearGreedData)
        s0 == [s EXCEPT !.debugInfo.totalPossibleTrades = @ + 1]
        s1 == PushEquity(WeeklyContribution(s0, a, currentDay, fearGreedToday), currentDay)
        inCooldown == inBuyCooldown(s1, currentDay) \/ inSellCooldown(s1, currentDay)
        inDowntrend == isInDowntrend(a.marketData, s.i)
        s2 == SellStrategy(s1, a, currentDay, fearGreedToday)
        s3 == ReleaseAccumulatedCash(s2, a, currentDay, fearGreedToday, inCooldown)
        s4 == LumpSumBuy(s3, a, currentDay, fearGreedToday, inCooldown, inDowntrend)
    IN  IF fearGreedToday = NullPoint
        THEN [s1 EXCEPT !.i = @ + 1, !.debugInfo.noFearGreedData = @ + 1]
        ELSE [s4 EXCEPT !.i = @ + 1]

\* no final purchase
FinalSweep_Skipped(s, finalDay) == s

\* the final purchase made without its entry in the trade log
FinalSweep_Unlogged(s, finalDay) ==
    IF ~Gt(s.cash, Zero) THEN s
    ELSE LET finalSharesToBuy == Div(s.cash, finalDay.close)
             cost == Mul(finalSharesToBuy, finalDay.close)
         IN  IF ~Gt(finalSharesToBuy, Zero) THEN s
             ELSE [s EXCEPT
                     !.shares = Add(@, finalSharesToBuy),
                     !.cash = Sub(@, cost),
                     !.debugInfo.executedBuys = @ + 1]

\* lines 686-714: the final purchase with the cash that is left
FinalSweep(s, finalDay) ==
    IF ~Gt(s.cash, Zero) THEN s
    ELSE LET finalSharesToBuy == Div(s.cash, finalDay.close)
             cost == Mul(finalSharesToBuy, finalDay.close)
         IN  IF ~Gt(finalSharesToBuy, Zero) THEN s
             ELSE [s EXCEPT
                     !.shares = Add(@, finalSharesToBuy),
                     !.cash = Sub(@, cost),
                     !.debugInfo.executedBuys = @ + 1,
                     !.trades = Append(@, Trade(finalDay.date, "buy", finalDay.close,
                                                finalSharesToBuy, cost,
                                                "Final cash allocation"))]

\* lines 719-723
FinalTotalInvested(s, a) ==
    IF ~a.useLumpSum THEN Add(s.totalInvested, s.accumulatedCash) ELSE s.totalInvested

\* lines 680-723: the locals after the loop, at the return statement
AfterLoop(s, a) ==
    LET s1 == FinalSweep(s, a.marketData[Len(a.marketData)])
    IN  [s1 EXCEPT !.totalInvested = FinalTotalInvested(s1, a)]

\* what Math.pow returns for finite operands outside the exact cases: a number
\* the implementation approximates, which the model does not evaluate
Approximated == [k |-> "approx", m |-> 0, e |-> 0]

\* Math.pow (line 732) as ECMAScript Number::exponentiate defines it, for the
\* operands line 732 can pass: the exponent 1 / yearFraction is never a zero
MathPow(base, exponent) ==
    IF exponent.k = "nan" THEN NaN
    ELSE IF base.k = "nan" THEN NaN
    ELSE IF base.k = "inf"
         THEN (IF Gt(exponent, Zero)
               THEN (IF base = PosInf THEN PosInf ELSE Approximated)
               ELSE Zero)
    ELSE IF base = Zero THEN (IF Gt(exponent, Zero) THEN Zero ELSE PosInf)
    ELSE IF exponent.k = "inf"
         THEN LET magnitude == IF Lt(base, Zero) THEN Neg(base) ELSE base
              IN  IF magnitude = FromInt(1) THEN NaN
                  ELSE IF Gt(magnitude, FromInt(1)) = (exponent = PosInf) THEN PosInf
                  ELSE Zero
    ELSE IF base = FromInt(1) THEN FromInt(1)
    ELSE Approximated

\* the annualized return (lines 729-732)
annualizedReturnOf(totalReturn, startDateForAnnualized, endDate) ==
    LET yearFraction == Div(FromInt(endDate - startDateForAnnualized),
                            FromInt(TicksPerDay * 365))
        power == MathPow(Add(FromInt(1), totalReturn), Div(FromInt(1), yearFraction))
    IN  IF power = Approximated THEN Approximated ELSE Sub(power, FromInt(1))

\* lines 716-759: the StrategyResult returned from the locals s after the sweep
StrategyResult(s, a) ==
    LET finalDay == a.marketData[Len(a.marketData)]
        finalValue == Add(Add(s.cash, Mul(s.shares, finalDay.close)), s.accumulatedCash)
        buyAndHoldValue == Mul(s.buyAndHoldShares, finalDay.close)
    IN  [ symbol |-> a.symbol,
          strategyName |-> strategyNameOf(a.strategyVariant),
          trades |-> s.trades,
          finalValue |-> finalValue,
          totalReturn |-> Sub(Div(finalValue, s.totalInvested), FromInt(1)),
          annualizedReturn |->
              annualizedReturnOf(Sub(Div(finalValue, s.totalInvested), FromInt(1)),
                                 a.marketData[1].date, finalDay.date),
          maxDrawdown |-> calculateMaxDrawdown(s.equityCurve),
          buyAndHoldValue |-> buyAndHoldValue,
          buyAndHoldReturn |-> Sub(Div(buyAndHoldValue, s.totalInvested), FromInt(1)),
          skippedContributions |-> s.skippedContributions,
          totalContributions |-> s.totalContributions,
          totalInvested |-> s.totalInvested,
          debugInfo |-> s.debugInfo ]

RECURSIVE RunDays(_, _)
\* the day loop of lines 390-678 from the locals s on, run to its end
RunDays(s, a) ==
    IF s.i >= Len(a.marketData) THEN s ELSE RunDays(DayStep(s, a), a)

\* runBacktest as a function of its argument, for a non-empty price series
runBacktest(a) ==
    StrategyResult(AfterLoop(RunDays(InitialRun(a), a), a), a)

\* the params of a run with the caller's mode and contribution amount kept
VariantParams_CallerMode(p, variant) ==
    [marketData |-> p.marketData, fearGreedData |-> p.fearGreedData,
     symbol |-> p.symbol, initialCapital |-> p.initialCapital,
     strategyVariant |-> variant,
     useLumpSum |-> p.useLumpSum,
     weeklyContribution |-> p.weeklyContribution]

\* lines 777-782: the BacktestParams runAllStrategyVariations passes for a variant
VariantParams(p, variant) ==
    [marketData |-> p.marketData, fearGreedData |-> p.fearGreedData,
     symbol |-> p.symbol, initialCapital |-> p.initialCapital,
     strategyVariant |-> variant,
     useLumpSum |-> FALSE,
     weeklyContribution |-> FromInt(500)]

(***************************************************************************)
(* The inputs of the model.                                                *)
(***************************************************************************)
\* closing prices
Closes == {FromInt(13), FromInt(15)}

\* gaps between consecutive price points, in days
Gaps == {1, 7}

\* Fear & Greed values: extreme fear, fear, neutral, greed
FearGreedValues == {10, 30, 50, 90}

Symbols == {"S&P 500", "NYSE"}

\* The symbol only reaches the thrown Error (line 323) and the log lines, so
\* the model varies it where runBacktest throws.
SymbolsFor(marketData) == IF Len(marketData) = 0 THEN Symbols ELSE {"NYSE"}

RECURSIVE PriceSeries(_)
\* the ascending price series of length n that start on day 0
PriceSeries(n) ==
    IF n = 0 THEN {<< >>}
    ELSE IF n = 1 THEN {<<[date |-> 0, close |-> c]>> : c \in Closes}
    ELSE {Append(s, [date |-> s[n - 1].date + g * TicksPerDay, close |-> c]) :
            s \in PriceSeries(n - 1), g \in Gaps, c \in Closes}

RECURSIVE AlignedSentiment(_, _)
\* the sentiment series with one point on each of the first n price dates
AlignedSentiment(marketData, n) ==
    IF n = 0 THEN {<< >>}
    ELSE {Append(s, [date |-> marketData[n].date, value |-> v]) :
            s \in AlignedSentiment(marketData, n - 1), v \in FearGreedValues}

\* the sentiment series offered for a price series: none, or one point a day
SentimentSeries(marketData) ==
    {<< >>} \cup AlignedSentiment(marketData, Len(marketData))

\* the price series of the main specification
PriceSeriesUpTo(n) == UNION {PriceSeries(j) : j \in 0..n}

\* the BacktestParams of a call (lines 4-12), with the defaults of lines 270-272 filled in
BacktestParams(md, fg, sym, v, lump) ==
    [marketData |-> md, fearGreedData |-> fg, symbol |-> sym,
     initialCapital |-> FromInt(1000), strategyVariant |-> v,
     weeklyContribution |-> FromInt(DEFAULT_WEEKLY_CONTRIBUTION), useLumpSum |-> lump]

VARIABLES
    entry,      \* the exported function that was called
    params,     \* its argument
    args,       \* the BacktestParams of the current runBacktest call
    pc,         \* where the call is
    run,        \* the locals of the current runBacktest call
    result,     \* what the current runBacktest call returned, << >> before it returns
    error,      \* the message of the Error thrown, "" when none
    variantIdx, \* runAllStrategyVariations: the position in strategyVariants
    results     \* runAllStrategyVariations: the results pushed so far

vars == <<entry, params, args, pc, run, result, error, variantIdx, results>>

\* the locals before the first call
NoRun ==
    [ i |-> 0, cooldownPeriods |-> 0, trades |-> << >>, cash |-> Zero, shares |-> Zero,
      equityCurve |-> << >>, lastBuyDate |-> NullDate, lastBuyPrice |-> NullNumber,
      lastSellDate |-> NullDate, totalInvested |-> Zero, skippedContributions |-> 0,
      totalContributions |-> 0, accumulatedCash |-> Zero, buyAndHoldCash |-> Zero,
      buyAndHoldShares |-> Zero, lastContributionDate |-> NullDate, injected |-> Zero,
      debugInfo |-> [ totalPossibleTrades |-> 0, noFearGreedData |-> 0, executedBuys |-> 0,
                      executedSells |-> 0, sellOpportunities |-> 0, insufficientProfit |-> 0,
                      strategyVariant |-> "", weeklyContribution |-> Zero,
                      useLumpSum |-> FALSE, weeklyContributionsSkipped |-> 0,
                      weeklyContributionsInvested |-> 0, doubleInvestments |-> 0 ] ]

\* a caller calls runBacktest(params)
Init ==
    /\ entry = "runBacktest"
    /\ \E md \in PriceSeriesUpTo(MaxLen) :
         \E fg \in SentimentSeries(md), sym \in SymbolsFor(md), j \in 1..4, lump \in BOOLEAN :
            params = BacktestParams(md, fg, sym, strategyVariants[j], lump)
    /\ args = params
    /\ pc = "call"
    /\ run = NoRun
    /\ result = << >>
    /\ error = ""
    /\ variantIdx = 0
    /\ results = << >>

\* lines 321-324: runBacktest throws on an empty price series
\* the throw with a message that does not name the symbol
Throw_NoSymbol ==
    /\ pc = "call"
    /\ Len(args.marketData) = 0
    /\ error' = "No market data available"
    /\ pc' = "thrown"
    /\ UNCHANGED <<entry, params, args, run, result, variantIdx, results>>

\* lines 321-324: runBacktest throws on an empty price series
Throw ==
    /\ pc = "call"
    /\ Len(args.marketData) = 0
    /\ error' = "No market data available for " \o args.symbol
    /\ pc' = "thrown"
    /\ UNCHANGED <<entry, params, args, run, result, variantIdx, results>>

\* lines 264-387: runBacktest up to the day loop
Enter ==
    /\ pc = "call"
    /\ Len(args.marketData) # 0
    /\ run' = InitialRun(args)
    /\ pc' = "loop"
    /\ UNCHANGED <<entry, params, args, result, error, variantIdx, results>>

\* lines 390-678: one simulated day
Day ==
    /\ pc = "loop"
    /\ run.i < Len(args.marketData)
    /\ run' = DayStep(run, args)
    /\ UNCHANGED <<entry, params, args, pc, result, error, variantIdx, results>>

\* lines 680-759: the final sweep, the metrics and the return
Finish ==
    /\ pc = "loop"
    /\ run.i = Len(args.marketData)
    /\ run' = AfterLoop(run, args)
    /\ result' = << StrategyResult(run', args) >>
    /\ pc' = "returned"
    /\ UNCHANGED <<entry, params, args, error, variantIdx, results>>

Next == Throw \/ Enter \/ Day \/ Finish

Spec == Init /\ [][Next]_vars

(***************************************************************************)
(* runAllStrategyVariations                                                *)
(***************************************************************************)
\* what a caller of runAllStrategyVariations passes for the two fields the
\* function overrides: nothing it would not override, or the opposite
Overridden == {[useLumpSum |-> FALSE, weeklyContribution |-> FromInt(500)],
               [useLumpSum |-> TRUE, weeklyContribution |-> FromInt(300)]}

\* a caller calls runAllStrategyVariations(params)
InitAll ==
    /\ entry = "runAllStrategyVariations"
    /\ \E md \in PriceSeriesUpTo(MaxLen) :
         \E fg \in SentimentSeries(md), sym \in SymbolsFor(md), o \in Overridden :
            params = [marketData |-> md, fearGreedData |-> fg, symbol |-> sym,
                      initialCapital |-> FromInt(1000),
                      weeklyContribution |-> o.weeklyContribution,
                      useLumpSum |-> o.useLumpSum]
    /\ args = params
    /\ pc = "next"
    /\ run = NoRun
    /\ result = << >>
    /\ error = ""
    /\ variantIdx = 1
    /\ results = << >>

\* lines 775-782: the loop calls runBacktest for the next variant
CallVariant ==
    /\ pc = "next"
    /\ variantIdx <= Len(strategyVariants)
    /\ args' = VariantParams(params, strategyVariants[variantIdx])
    /\ pc' = "call"
    /\ UNCHANGED <<entry, params, run, result, error, variantIdx, results>>

\* the result is put in front of the earlier ones
Collect_Unshift ==
    /\ pc = "returned"
    /\ entry = "runAllStrategyVariations"
    /\ results' = << result[1] >> \o results
    /\ result' = << >>
    /\ variantIdx' = variantIdx + 1
    /\ pc' = IF variantIdx = Len(strategyVariants) THEN "allreturned" ELSE "next"
    /\ UNCHANGED <<entry, params, args, run, error>>

\* lines 784-787: the result is pushed; after the last variant results is returned
Collect ==
    /\ pc = "returned"
    /\ entry = "runAllStrategyVariations"
    /\ results' = Append(results, result[1])
    /\ result' = << >>
    /\ variantIdx' = variantIdx + 1
    /\ pc' = IF variantIdx = Len(strategyVariants) THEN "allreturned" ELSE "next"
    /\ UNCHANGED <<entry, params, args, run, error>>

NextAll == CallVariant \/ Throw \/ Enter \/ Day \/ Finish \/ Collect

SpecAll == InitAll /\ [][NextAll]_vars

\* either exported function is called
SpecCalls == (Init \/ InitAll) /\ [][NextAll]_vars

(***************************************************************************)
(* calculateMaxDrawdown on its own                                         *)
(***************************************************************************)
\* longest equity curve
MaxCurve == 4

EquityValues == {Zero, FromInt(10), FromInt(13), FromInt(15),
                 Neg(FromInt(10)), Neg(FromInt(13))}

RECURSIVE Curves(_)
Curves(n) ==
    IF n = 0 THEN {<< >>}
    ELSE {Append(c, v) : c \in Curves(n - 1), v \in EquityValues}

InitDrawdown ==
    /\ entry = "calculateMaxDrawdown"
    /\ params \in UNION {Curves(n) : n \in 0..MaxCurve}
    /\ args = params
    /\ pc = "call"
    /\ run = NoRun
    /\ result = << >>
    /\ error = ""
    /\ variantIdx = 0
    /\ results = << >>

\* calculateMaxDrawdown(args) runs and returns
Drawdown ==
    /\ pc = "call"
    /\ entry = "calculateMaxDrawdown"
    /\ result' = << calculateMaxDrawdown(args) >>
    /\ pc' = "returned"
    /\ UNCHANGED <<entry, params, args, run, error, variantIdx, results>>

NextDrawdown == Drawdown

SpecDrawdown == InitDrawdown /\ [][NextDrawdown]_vars

(***************************************************************************)
(* runBacktest over price series long enough for the cooldown windows      *)
(***************************************************************************)
\* length of the price series
LongLen == 5

\* extreme fear or greed on every day
ExtremeValues == {10, 90}

RECURSIVE ExtremeSentiment(_, _)
\* the sentiment series with one extreme point on each of the first n price dates
ExtremeSentiment(marketData, n) ==
    IF n = 0 THEN {<< >>}
    ELSE {Append(s, [date |-> marketData[n].date, value |-> v]) :
            s \in ExtremeSentiment(marketData, n - 1), v \in ExtremeValues}

\* on extreme values the variants that sell behave alike, and so do those
\* that buy: one variant that sells and the one that holds
LongVariants == {"default", "extreme-fear-hold"}

\* a caller calls runBacktest on a series of LongLen days
InitLong ==
    /\ entry = "runBacktest"
    /\ \E md \in PriceSeries(LongLen) :
         \E fg \in ExtremeSentiment(md, LongLen), v \in LongVariants, lump \in BOOLEAN :
            params = BacktestParams(md, fg, "NYSE", v, lump)
    /\ args = params
    /\ pc = "call"
    /\ run = NoRun
    /\ result = << >>
    /\ error = ""
    /\ variantIdx = 0
    /\ results = << >>

NextLong == Enter \/ Day \/ Finish

SpecLong == InitLong /\ [][NextLong]_vars

(***************************************************************************)
(* runBacktest over price series with gaps around and beyond a week        *)
(***************************************************************************)
\* days between consecutive price points: short of a week, a week, two weeks and more
ScheduleGaps == {1, 6, 7, 15}

RECURSIVE ScheduleSeries(_)
\* the price series of n points with gaps of ScheduleGaps
ScheduleSeries(n) ==
    IF n = 1 THEN {<< [date |-> 0, close |-> c] >> : c \in Closes}
    ELSE {Append(s, [date |-> s[n - 1].date + g * TicksPerDay, close |-> c]) :
            s \in ScheduleSeries(n - 1), g \in ScheduleGaps, c \in Closes}

\* a caller calls runBacktest on such a series
InitSchedule ==
    /\ entry = "runBacktest"
    /\ \E n \in 1..MaxLen : \E md \in ScheduleSeries(n) :
         \E fg \in {<< >>} \cup ExtremeSentiment(md, n), v \in LongVariants,
            lump \in BOOLEAN :
            params = BacktestParams(md, fg, "NYSE", v, lump)
    /\ args = params
    /\ pc = "call"
    /\ run = NoRun
    /\ result = << >>
    /\ error = ""
    /\ variantIdx = 0
    /\ results = << >>

NextSchedule == Enter \/ Day \/ Finish

SpecSchedule == InitSchedule /\ [][NextSchedule]_vars

(***************************************************************************)
(* runBacktest over weekly price series, with two contribution amounts     *)
(***************************************************************************)
\* length of the weekly price series
WeeklyLen == 7

\* the default amount and one whose multiples need more than Precision bits
ContributionAmounts == {FromInt(DEFAULT_WEEKLY_CONTRIBUTION), FromInt(1639)}

RECURSIVE WeeklySeries(_)
\* the price series of n points a week apart, at one close
WeeklySeries(n) ==
    IF n = 0 THEN << >>
    ELSE Append(WeeklySeries(n - 1),
                [date |-> (n - 1) * DAYS_IN_WEEK * TicksPerDay, close |-> FromInt(13)])

\* a caller calls runBacktest on the weekly series
InitWeekly ==
    /\ entry = "runBacktest"
    /\ \E fg \in {<< >>} \cup ExtremeSentiment(WeeklySeries(WeeklyLen), WeeklyLen),
          v \in LongVariants, lump \in BOOLEAN, w \in ContributionAmounts :
          params = [BacktestParams(WeeklySeries(WeeklyLen), fg, "NYSE", v, lump)
                        EXCEPT !.weeklyContribution = w]
    /\ args = params
    /\ pc = "call"
    /\ run = NoRun
    /\ result = << >>
    /\ error = ""
    /\ variantIdx = 0
    /\ results = << >>

NextWeekly == Enter \/ Day \/ Finish

SpecWeekly == InitWeekly /\ [][NextWeekly]_vars

(***************************************************************************)
(* runBacktest around the sell thresholds                                  *)
(***************************************************************************)
\* closes 10% apart (10 to 11), less (11 to 12) and more (10 to 12)
SellCloses == {FromInt(10), FromInt(11), FromInt(12)}

\* extreme fear, and the values on both sides of the two greed thresholds
SellValues == {10, EXTREME_GREED_THRESHOLD - 1, EXTREME_GREED_THRESHOLD,
               GREED_THRESHOLD - 1, GREED_THRESHOLD}

\* price points on day 0, a week later and the day after
SellSeries ==
    {<<[date |-> 0, close |-> c1],
       [date |-> DAYS_IN_WEEK * TicksPerDay, close |-> c2],
       [date |-> (DAYS_IN_WEEK + 1) * TicksPerDay, close |-> c3]>> :
        c1 \in SellCloses, c2 \in SellCloses, c3 \in SellCloses}

\* one sentiment point on each price date
SellSentiment(marketData) ==
    {<<[date |-> marketData[1].date, value |-> v1],
       [date |-> marketData[2].date, value |-> v2],
       [date |-> marketData[3].date, value |-> v3]>> :
        v1 \in SellValues, v2 \in SellValues, v3 \in SellValues}

\* a caller calls runBacktest on a series of SellSeries
InitSell ==
    /\ entry = "runBacktest"
    /\ \E md \in SellSeries :
         \E fg \in SellSentiment(md), j \in 1..4, lump \in BOOLEAN :
            params = BacktestParams(md, fg, "NYSE", strategyVariants[j], lump)
    /\ args = params
    /\ pc = "call"
    /\ run = NoRun
    /\ result = << >>
    /\ error = ""
    /\ variantIdx = 0
    /\ results = << >>

NextSell == Enter \/ Day \/ Finish

SpecSell == InitSell /\ [][NextSell]_vars

(***************************************************************************)
(* runBacktest over a daily series long enough for the moving average      *)
(***************************************************************************)
\* the first two indices at which a trend is computed are TREND_MA_PERIOD
\* and TREND_MA_PERIOD + 1
TrendLen == TREND_MA_PERIOD + 2

\* daily closes: 15 up to index TREND_MA_PERIOD - 1, then c1 and c2
TrendSeries ==
    {[k \in 1..TrendLen |->
        [date |-> (k - 1) * TicksPerDay,
         close |-> IF k <= TREND_MA_PERIOD THEN FromInt(15)
                   ELSE IF k = TREND_MA_PERIOD + 1 THEN c1 ELSE c2]] :
        c1 \in Closes, c2 \in Closes}

\* the indices of an earlier day of extreme fear: none, one 20 days and one
\* 10 days before index TREND_MA_PERIOD
EarlierFear == {0, TREND_MA_PERIOD - 19, TREND_MA_PERIOD - 9}

\* sentiment of the last two days
TrendValues == {10, 30, 50}

\* daily sentiment: neutral, but for the earlier day of fear and the last two days
TrendSentiment(marketData) ==
    {[k \in 1..TrendLen |->
        [date |-> marketData[k].date,
         value |-> IF k = p THEN 10
                   ELSE IF k = TREND_MA_PERIOD + 1 THEN v1
                   ELSE IF k = TREND_MA_PERIOD + 2 THEN v2
                   ELSE 50]] :
        p \in EarlierFear, v1 \in TrendValues, v2 \in TrendValues}

\* a caller calls runBacktest on a series of TrendSeries
InitTrend ==
    /\ entry = "runBacktest"
    /\ \E md \in TrendSeries :
         \E fg \in TrendSentiment(md), j \in 1..4, lump \in BOOLEAN :
            params = BacktestParams(md, fg, "NYSE", strategyVariants[j], lump)
    /\ args = params
    /\ pc = "call"
    /\ run = NoRun
    /\ result = << >>
    /\ error = ""
    /\ variantIdx = 0
    /\ results = << >>

NextTrend == Enter \/ Day \/ Finish

SpecTrend == InitTrend /\ [][NextTrend]_vars

(***************************************************************************)
(* runBacktest on one price point, for every sentiment value               *)
(***************************************************************************)
\* the sentiment series with the single point v on the day of the price point
InitAllocation ==
    /\ entry = "runBacktest"
    /\ \E md \in PriceSeries(1) :
         \E v \in 0..100, j \in 1..4, lump \in BOOLEAN :
            params = BacktestParams(md, <<[date |-> md[1].date, value |-> v]>>, "NYSE",
                                    strategyVariants[j], lump)
    /\ args = params
    /\ pc = "call"
    /\ run = NoRun
    /\ result = << >>
    /\ error = ""
    /\ variantIdx = 0
    /\ results = << >>

NextAllocation == Enter \/ Day \/ Finish

SpecAllocation == InitAllocation /\ [][NextAllocation]_vars

(***************************************************************************)
(* determineCooldownPeriod on its own                                      *)
(***************************************************************************)
\* longest price series given to determineCooldownPeriod
CooldownLen == 11

\* gaps of a day and of a month
CooldownGaps == {1, 30}

\* evenly spaced series have one of these gaps, the thresholds and their neighbours
EvenGaps == {5, 6, 20, 21}

RECURSIVE GapSeries(_, _)
\* the price series of n points whose gaps are drawn from gaps
GapSeries(n, gaps) ==
    IF n = 0 THEN {<< >>}
    ELSE IF n = 1 THEN {<<[date |-> 0, close |-> FromInt(13)]>>}
    ELSE {Append(s, [date |-> s[n - 1].date + g * TicksPerDay, close |-> FromInt(13)]) :
            s \in GapSeries(n - 1, gaps), g \in gaps}

\* a caller calls determineCooldownPeriod(params)
InitCooldown ==
    /\ entry = "determineCooldownPeriod"
    /\ params \in UNION {GapSeries(n, CooldownGaps) \cup
                           UNION {GapSeries(n, {g}) : g \in EvenGaps} : n \in 0..CooldownLen}
    /\ args = params
    /\ pc = "call"
    /\ run = NoRun
    /\ result = << >>
    /\ error = ""
    /\ variantIdx = 0
    /\ results = << >>

\* determineCooldownPeriod runs and returns
Cooldown ==
    /\ pc = "call"
    /\ entry = "determineCooldownPeriod"
    /\ result' = << determineCooldownPeriod(args) >>
    /\ pc' = "returned"
    /\ UNCHANGED <<entry, params, args, run, error, variantIdx, results>>

NextCooldown == Cooldown

SpecCooldown == InitCooldown /\ [][NextCooldown]_vars

(***************************************************************************)
(* findClosestFearGreedData on its own                                     *)
(***************************************************************************)
\* longest sentiment sequence given to findClosestFearGreedData
ClosestLen == 3

\* the dates span this many days
ClosestDays == 3

\* every time of every day
ClosestDates == 0..(ClosestDays * TicksPerDay - 1)

RECURSIVE SentimentPoints(_)
\* the sentiment sequences of n points in any order of dates; the value of a
\* point tells its position
SentimentPoints(n) ==
    IF n = 0 THEN {<< >>}
    ELSE {Append(s, [date |-> d, value |-> 10 * n]) :
            s \in SentimentPoints(n - 1), d \in ClosestDates}

\* a caller calls findClosestFearGreedData(date, fearGreedData)
InitClosest ==
    /\ entry = "findClosestFearGreedData"
    /\ \E d \in ClosestDates, n \in 0..ClosestLen :
         \E fg \in SentimentPoints(n) :
            params = [date |-> d, fearGreedData |-> fg]
    /\ args = params
    /\ pc = "call"
    /\ run = NoRun
    /\ result = << >>
    /\ error = ""
    /\ variantIdx = 0
    /\ results = << >>

\* findClosestFearGreedData runs and returns
Closest ==
    /\ pc = "call"
    /\ entry = "findClosestFearGreedData"
    /\ result' = << findClosestFearGreedData(args.date, args.fearGreedData) >>
    /\ pc' = "returned"
    /\ UNCHANGED <<entry, params, args, run, error, variantIdx, results>>

NextClosest == Closest

SpecClosest == InitClosest /\ [][NextClosest]_vars

(***************************************************************************)
(* isInDowntrend on its own                                                *)
(***************************************************************************)
\* closes: two small ones, and one whose multiples need more than Precision bits
DowntrendCloses == {FromInt(13), FromInt(15), FromInt(171)}

\* the lengths of the series: too short for a trend, and the first lengths
\* with one
DowntrendLengths == {1, TREND_MA_PERIOD, TREND_MA_PERIOD + 1, TREND_MA_PERIOD + 2}

\* series at one close up to index TREND_MA_PERIOD - 1, then any closes
DowntrendSeries(n) ==
    {[k \in 1..n |->
        [date |-> (k - 1) * TicksPerDay,
         close |-> IF k <= TREND_MA_PERIOD THEN c0
                   ELSE IF k = TREND_MA_PERIOD + 1 THEN c1 ELSE c2]] :
        c0 \in DowntrendCloses, c1 \in DowntrendCloses, c2 \in DowntrendCloses}

\* a caller calls isInDowntrend(data, currentIndex)
InitDowntrend ==
    /\ entry = "isInDowntrend"
    /\ \E n \in DowntrendLengths :
         \E data \in DowntrendSeries(n), currentIndex \in 0..(n - 1) :
            params = [data |-> data, currentIndex |-> currentIndex]
    /\ args = params
    /\ pc = "call"
    /\ run = NoRun
    /\ result = << >>
    /\ error = ""
    /\ variantIdx = 0
    /\ results = << >>

\* isInDowntrend runs and returns
Downtrend ==
    /\ pc = "call"
    /\ entry = "isInDowntrend"
    /\ result' = << isInDowntrend(args.data, args.currentIndex) >>
    /\ pc' = "returned"
    /\ UNCHANGED <<entry, params, args, run, error, variantIdx, results>>

NextDowntrend == Downtrend

SpecDowntrend == InitDowntrend /\ [][NextDowntrend]_vars

(***************************************************************************)
(* shouldInvestWeeklyAmount on its own                                     *)
(***************************************************************************)
\* a call shouldInvestWeeklyAmount(fearGreedValue, inDowntrend, strategyVariant)
InitInvest ==
    /\ entry = "shouldInvestWeeklyAmount"
    /\ \E v \in (0..100) \cup {NoValue}, d \in BOOLEAN, j \in 1..4 :
          params = [fearGreedValue |-> v, inDowntrend |-> d,
                    strategyVariant |-> strategyVariants[j]]
    /\ args = params
    /\ pc = "call"
    /\ run = NoRun
    /\ result = << >>
    /\ error = ""
    /\ variantIdx = 0
    /\ results = << >>

\* shouldInvestWeeklyAmount runs and returns
Invest ==
    /\ pc = "call"
    /\ entry = "shouldInvestWeeklyAmount"
    /\ result' = << shouldInvestWeeklyAmount(args.fearGreedValue, args.inDowntrend,
                                              args.strategyVariant) >>
    /\ pc' = "returned"
    /\ UNCHANGED <<entry, params, args, run, error, variantIdx, results>>

NextInvest == Invest

SpecInvest == InitInvest /\ [][NextInvest]_vars

(***************************************************************************)
(* Properties                                                              *)
(***************************************************************************)
\* the day the loop simulated last (line 391), once run.i >= 1, and the
\* sentiment resolved for it (line 395)
simulatedDay == args.marketData[run.i]

simulatedSentiment == findClosestFearGreedData(simulatedDay.date, args.fearGreedData)

\* the call is inside runBacktest, after at least one simulated day
Simulating == pc \in {"loop", "returned"} /\ run.i >= 1

\* C1: in runBacktest, for every non-empty price series with positive closes,
\* every sentiment series, every variant and both modes, cash >= 0 and
\* shares >= 0 after every simulated day and after the final cash sweep.
\* Violated: a buy spends (cash / close) * close, which rounds above cash.
C1_CashAndSharesNonNegative ==
    Simulating => Ge(run.cash, Zero) /\ Ge(run.shares, Zero)

\* C2: at the end of a run totalInvested is the lump-sum capital plus every
\* amount of cash injected into the ledger (each deployed contribution at its
\* deployed, possibly doubled, size and each accumulated-cash release) plus
\* the accumulated cash still held.
\* Violated: a doubled contribution adds 2 * weeklyContribution to cash and
\* weeklyContribution to totalInvested.
C2_TotalInvestedIsInjectedCash ==
    pc = "returned" =>
        result[1].totalInvested = Add(run.injected, run.accumulatedCash)

\* C3: with strategyVariant = 'extreme-fear-hold', in both modes and for every
\* price and sentiment series, the returned trade log has no trade of type
\* 'sell' and shares never decreases during the run.
C3_HoldNeverSells ==
    /\ [](args.strategyVariant = "extreme-fear-hold" /\ pc = "returned" =>
            \A k \in 1..Len(result[1].trades) : result[1].trades[k].type # "sell")
    /\ [][args.strategyVariant = "extreme-fear-hold" =>
            ~Lt(run'.shares, run.shares)]_vars

\* C3 happens: the hold variant holds shares on a day whose sentiment and
\* profit make the default variant sell
C3_HoldOnGreedDay ==
    /\ args.strategyVariant = "extreme-fear-hold"
    /\ Simulating
    /\ Gt(run.shares, Zero)
    /\ simulatedSentiment.value >= GREED_THRESHOLD
    /\ run.lastBuyPrice # NullNumber
    /\ Ge(Div(Sub(simulatedDay.close, run.lastBuyPrice), run.lastBuyPrice),
          MIN_PROFIT_PERCENT)

\* the step is one iteration of the day loop, for the day args.marketData[run.i + 1]
DayTaken == pc = "loop" /\ pc' = "loop" /\ run'.i = run.i + 1

\* the day loop iteration of this step executed a sell
SellExecuted ==
    DayTaken /\ run'.debugInfo.executedSells = run.debugInfo.executedSells + 1

\* the sell Trade the step recorded is for soldShares at the day's close
SellRecorded(soldShares) ==
    LET trade == run'.trades[Len(run'.trades)]
    IN  /\ Len(run'.trades) = Len(run.trades) + 1
        /\ trade.type = "sell"
        /\ trade.price = args.marketData[run.i + 1].close
        /\ trade.shares = soldShares
        /\ trade.value = Mul(trade.shares, trade.price)
        /\ run'.cash = Add(run.cash, Mul(soldShares, trade.price))

\* C4 as stated: every executed sell leaves shares_after = 0.7 * shares_before,
\* adds soldShares * close to cash and records a sell Trade with
\* shares = 0.3 * shares_before and value = shares * price.
\* Violated: shares_before - 0.3 * shares_before and 0.7 * shares_before are
\* rounded differently.
C4_SellLeavesSeventyPercent ==
    [][SellExecuted =>
         /\ run'.shares = Mul(Lit(7, 10), run.shares)
         /\ SellRecorded(Mul(Lit(3, 10), run.shares))]_vars

\* C4, amended: every executed sell sells soldShares = shares_before * 0.3 and
\* leaves shares_after = shares_before - soldShares, which is
\* 0.7 * shares_before up to rounding (within shares_before * 2^(2 - Precision));
\* it adds soldShares * close to cash and records a sell Trade with
\* shares = soldShares, price = close and value = shares * price.
C4_SellSizing ==
    [][SellExecuted =>
         LET soldShares == Mul(run.shares, SELL_PERCENTAGE)
             difference == Sub(run'.shares, Mul(Lit(7, 10), run.shares))
             tolerance == Mul(run.shares, Div(FromInt(4), FromInt(Pow2(Precision))))
         IN  /\ run'.shares = Sub(run.shares, soldShares)
             /\ Le(difference, tolerance) /\ Le(Neg(difference), tolerance)
             /\ SellRecorded(soldShares)]_vars

\* C4 happens: the day simulated last sold shares
C4_SellHappened ==
    /\ pc = "loop" /\ run.i >= 1
    /\ run.lastSellDate = simulatedDay.date
    /\ run.debugInfo.executedSells >= 1
    /\ Len(run.trades) >= 2
    /\ run.trades[Len(run.trades)].type = "sell"

\* a lump-sum run over a single price point has returned
SinglePointLumpSum ==
    pc = "returned" /\ Len(args.marketData) = 1 /\ args.useLumpSum

\* the sentiment resolved for the only day lets the variant buy (lines 609-623)
BuySignal ==
    /\ simulatedSentiment # NullPoint
    /\ shouldBuy(args.strategyVariant, simulatedSentiment.value)

\* the trade is a buy of the whole of amount at the close of the only day
BuysAllOf(trade, amount) ==
    /\ trade.type = "buy"
    /\ trade.price = args.marketData[1].close
    /\ trade.shares = Div(amount, trade.price)
    /\ trade.value = Mul(trade.shares, trade.price)

\* C5 as stated: one price point, useLumpSum = true, any variant and sentiment:
\* exactly one buy trade, which consumes all of initialCapital at the point's
\* close, and finalValue = initialCapital.
\* Violated: on a buy signal the loop buys with a part of the capital and the
\* final sweep buys with the rest.
C5_SinglePointOneBuy ==
    SinglePointLumpSum =>
        /\ Len(result[1].trades) = 1
        /\ BuysAllOf(result[1].trades[1], args.initialCapital)
        /\ result[1].finalValue = args.initialCapital

\* C5, amended: when the day's sentiment is missing or does not satisfy the
\* variant's buy condition, the run produces exactly one buy trade, the final
\* sweep, of initialCapital / close shares at the close, and finalValue =
\* initialCapital; on a buy signal it produces two buy trades, the loop's and
\* the final sweep of the cash the first left.
C5_SinglePointBuys ==
    SinglePointLumpSum =>
        LET trades == result[1].trades
        IN  IF BuySignal
            THEN /\ Len(trades) = 2
                 /\ trades[1].type = "buy" /\ trades[1].reason = "Fear & Greed Index"
                 /\ Lt(trades[1].value, args.initialCapital)
                 /\ BuysAllOf(trades[2], Sub(args.initialCapital, trades[1].value))
                 /\ trades[2].reason = "Final cash allocation"
            ELSE /\ Len(trades) = 1
                 /\ BuysAllOf(trades[1], args.initialCapital)
                 /\ trades[1].reason = "Final cash allocation"
                 /\ result[1].finalValue = args.initialCapital

\* C5 happens: a single-point lump-sum run without a buy signal returned its
\* one trade
C5_SinglePointNoSignal ==
    /\ SinglePointLumpSum
    /\ ~BuySignal
    /\ simulatedSentiment # NullPoint
    /\ Len(result[1].trades) = 1

\* the day loop iteration of this step is a contribution day of periodic mode
\* whose resolved sentiment value is above the fear threshold
ContributionAboveFear ==
    LET fearGreedToday == findClosestFearGreedData(args.marketData[run.i + 1].date,
                                                   args.fearGreedData)
    IN  /\ DayTaken
        /\ ~args.useLumpSum
        /\ run'.totalContributions = run.totalContributions + 1
        /\ fearGreedToday # NullPoint
        /\ fearGreedToday.value > FEAR_THRESHOLD

\* C6: in periodic mode, on a contribution day whose resolved sentiment value
\* is above the fear threshold the contribution is deferred for every variant:
\* skippedContributions is incremented, accumulatedCash grows by the
\* contribution amount and no buy trade is executed; with two price points
\* 7+ days apart and sentiment 50 on the second, skippedContributions = 1.
C6_ContributionDeferred ==
    /\ [][ContributionAboveFear =>
            /\ run'.skippedContributions = run.skippedContributions + 1
            /\ run'.accumulatedCash = Add(run.accumulatedCash, args.weeklyContribution)
            /\ run'.debugInfo.executedBuys = run.debugInfo.executedBuys
            /\ run'.debugInfo.weeklyContributionsInvested
                    = run.debugInfo.weeklyContributionsInvested
            /\ \A k \in (Len(run.trades) + 1)..Len(run'.trades) :
                    run'.trades[k].type # "buy"]_vars
    /\ [](/\ pc = "returned" /\ ~args.useLumpSum /\ Len(args.marketData) = 2
           /\ args.marketData[2].date - args.marketData[1].date
                  >= DAYS_IN_WEEK * TicksPerDay
           /\ simulatedSentiment # NullPoint /\ simulatedSentiment.value = 50
           => result[1].skippedContributions = 1)

\* C6 happens: the day simulated last was a contribution day with sentiment
\* above the fear threshold
C6_DeferredOnNeutralDay ==
    /\ pc = "loop" /\ run.i >= 2
    /\ ~args.useLumpSum
    /\ run.lastContributionDate = simulatedDay.date
    /\ simulatedSentiment # NullPoint
    /\ simulatedSentiment.value > FEAR_THRESHOLD
    /\ run.skippedContributions >= 1

\* the call is a call of runAllStrategyVariations
InRunAll == entry = "runAllStrategyVariations"

\* the order of the variants the caller gets
VariantOrder == <<"default", "extreme-only", "extreme-fear-hold", "combined">>

\* C7: runAllStrategyVariations returns exactly 4 results, in the order
\* default, extreme-only, extreme-fear-hold, combined, the k-th result's
\* debugInfo.strategyVariant being the k-th variant of that order, for every
\* non-empty price series (for which it does not throw).
C7_FourResultsInOrder ==
    InRunAll =>
        /\ \A k \in 1..Len(results) :
               k <= 4 /\ results[k].debugInfo.strategyVariant = VariantOrder[k]
        /\ pc = "allreturned" => Len(results) = 4
        /\ Len(params.marketData) > 0 => pc # "thrown"

\* C7 happens: runAllStrategyVariations returned its results for a price
\* series of several days
C7_AllReturned ==
    /\ InRunAll
    /\ pc = "allreturned"
    /\ Len(params.marketData) >= 2
    /\ Len(results) = 4

\* the params of a standalone periodic run of the k-th variant on the caller's data
StandaloneParams(k) ==
    [marketData |-> params.marketData, fearGreedData |-> params.fearGreedData,
     symbol |-> params.symbol, initialCapital |-> params.initialCapital,
     strategyVariant |-> VariantOrder[k],
     useLumpSum |-> FALSE,
     weeklyContribution |-> FromInt(500)]

\* C8: each of the four runs made by runAllStrategyVariations is in periodic
\* mode with the contribution amount 500, whatever useLumpSum or
\* weeklyContribution the caller passed, and no state carries over between the
\* runs: the k-th result equals the result of a standalone runBacktest call
\* with the same data, variant k, useLumpSum = false and weeklyContribution = 500.
C8_RunsAreStandalonePeriodic ==
    InRunAll =>
        /\ pc \in {"call", "loop", "returned", "thrown"} =>
               ~args.useLumpSum /\ args.weeklyContribution = FromInt(500)
        /\ pc \in {"loop", "returned"} =>
               /\ ~run.debugInfo.useLumpSum
               /\ run.debugInfo.weeklyContribution = FromInt(500)
        /\ \A k \in 1..Len(results) : results[k] = runBacktest(StandaloneParams(k))

\* C8 happens: a caller that passed useLumpSum = true and another amount got
\* four results of runs with contributions
C8_CallerModeOverridden ==
    /\ InRunAll
    /\ pc = "allreturned"
    /\ params.useLumpSum /\ params.weeklyContribution # FromInt(500)
    /\ Len(results) = 4
    /\ results[1].totalContributions >= 1
    /\ Len(results[1].trades) >= 1

\* the running maximum of the curve up to and including index i
PeakAt(curve, i) ==
    CHOOSE v \in {curve[j] : j \in 1..i} : \A j \in 1..i : Le(curve[j], v)

\* the drawdowns of the entries whose running peak is not 0
DrawdownsOf(curve) ==
    {Div(Sub(PeakAt(curve, i), curve[i]), PeakAt(curve, i)) :
        i \in {j \in 1..Len(curve) : PeakAt(curve, j) # Zero}}

\* the largest drawdown of the curve, 0 when there is none
LargestDrawdown(curve) ==
    IF DrawdownsOf(curve) = {} THEN Zero
    ELSE CHOOSE d \in DrawdownsOf(curve) : \A x \in DrawdownsOf(curve) : Le(x, d)

\* C9: calculateMaxDrawdown returns max over i of (peak_i - value_i) / peak_i
\* with peak_i the running maximum up to and including i, entries whose
\* running peak is 0 skipped; the result lies in [0, 1] for every non-empty
\* curve of positive values and is 0 for every non-decreasing curve, the
\* curve seeded with 0 included.
C9_MaxDrawdown ==
    entry = "calculateMaxDrawdown" /\ pc = "returned" =>
        LET curve == args
            maxDrawdown == result[1]
        IN  /\ maxDrawdown = LargestDrawdown(curve)
            /\ (Len(curve) > 0 /\ \A i \in 1..Len(curve) : Gt(curve[i], Zero)) =>
                   Ge(maxDrawdown, Zero) /\ Le(maxDrawdown, FromInt(1))
            /\ (\A i \in 1..Len(curve) - 1 : Le(curve[i], curve[i + 1])) =>
                   maxDrawdown = Zero

\* C9 happens: a curve seeded with 0 that rises and then falls has a positive
\* drawdown
C9_SeededCurveWithDrop ==
    /\ entry = "calculateMaxDrawdown"
    /\ pc = "returned"
    /\ Len(args) >= 3
    /\ args[1] = Zero
    /\ Gt(args[2], args[3]) /\ Gt(args[3], Zero)
    /\ Gt(result[1], Zero)

\* C10: runBacktest with an empty marketData fails with an error that carries
\* the symbol name, for every variant and mode; no StrategyResult and no
\* partial trade log is returned, and in runAllStrategyVariations the failure
\* of the first variant aborts the whole call with no results.
C10_EmptyMarketDataThrows ==
    /\ [](Len(params.marketData) = 0 =>
            /\ pc \in {"next", "call", "thrown"}
            /\ result = << >> /\ results = << >> /\ run = NoRun)
    /\ [](pc = "thrown" =>
            /\ Len(args.marketData) = 0
            /\ error = "No market data available for " \o params.symbol
            /\ InRunAll => variantIdx = 1 /\ args.strategyVariant = "default")
    /\ [][pc = "thrown" => pc' = "thrown"]_vars

\* C10 happens: the first run of runAllStrategyVariations threw
C10_RunAllAborted ==
    /\ InRunAll
    /\ pc = "thrown"
    /\ params.symbol = "S&P 500"
    /\ error = "No market data available for S&P 500"

\* a run whose first and last price points have the same date has returned
ZeroDuration ==
    /\ pc = "returned"
    /\ args.marketData[Len(args.marketData)].date = args.marketData[1].date

\* C11: when the first and last price points have the same date (a
\* single-point series), annualizedReturn is the sentinel 0 of a guarded
\* branch and no division by a zero year fraction is performed.
\* Violated: line 732 divides 1 by the year fraction 0 and raises
\* 1 + totalReturn to the power Infinity, which is NaN, Infinity or -1.
C11_ZeroDurationAnnualizedIsSentinel ==
    ZeroDuration => result[1].annualizedReturn = Zero

\* C12: for every non-empty price series in either mode, totalReturn and
\* buyAndHoldReturn are computed with a non-zero divisor: totalInvested > 0
\* at the point of division, periodic runs without a contribution event
\* included, so neither return is NaN or infinite.
\* Violated: a periodic run over fewer than 7 days divides 0 by 0.
C12_DivisorIsPositive ==
    pc = "returned" =>
        /\ Gt(result[1].totalInvested, Zero)
        /\ IsFinite(result[1].totalReturn)
        /\ IsFinite(result[1].buyAndHoldReturn)

\* the day loop iteration of this step is for a day without a resolved sentiment point
DayWithoutSentiment ==
    /\ DayTaken
    /\ findClosestFearGreedData(args.marketData[run.i + 1].date, args.fearGreedData)
           = NullPoint

\* the day of this step is due a contribution (line 403)
ContributionDue ==
    /\ ~args.useLumpSum
    /\ args.marketData[run.i + 1].date - run.lastContributionDate
           >= DAYS_IN_WEEK * TicksPerDay

\* C13: no sentiment point resolves for a day only when the sentiment series
\* is empty; on such a day the sell, the accumulated-cash release and the
\* lump-sum buy are skipped while the contribution scheduler and the
\* equity-curve append still run and every contribution is deferred; the run
\* completes with a StrategyResult, and the only trade a lump-sum run can
\* contain is the final cash sweep.
C13_DayWithoutSentiment ==
    /\ [](pc \in {"loop", "returned"} =>
            \A j \in 1..Len(args.marketData) :
                (findClosestFearGreedData(args.marketData[j].date, args.fearGreedData)
                     = NullPoint) <=> (Len(args.fearGreedData) = 0))
    /\ [][DayWithoutSentiment =>
            /\ run'.trades = run.trades
            /\ run'.cash = run.cash /\ run'.shares = run.shares
            /\ run'.lastSellDate = run.lastSellDate /\ run'.lastBuyDate = run.lastBuyDate
            /\ run'.debugInfo.executedSells = run.debugInfo.executedSells
            /\ run'.debugInfo.executedBuys = run.debugInfo.executedBuys
            /\ run'.debugInfo.noFearGreedData = run.debugInfo.noFearGreedData + 1
            /\ Len(run'.equityCurve) = Len(run.equityCurve) + 1
            /\ IF ContributionDue
               THEN /\ run'.totalContributions = run.totalContributions + 1
                    /\ run'.skippedContributions = run.skippedContributions + 1
                    /\ run'.accumulatedCash
                           = Add(run.accumulatedCash, args.weeklyContribution)
               ELSE /\ run'.totalContributions = run.totalContributions
                    /\ run'.skippedContributions = run.skippedContributions
                    /\ run'.accumulatedCash = run.accumulatedCash]_vars
    /\ [](pc = "returned" /\ Len(args.fearGreedData) = 0 =>
            /\ Len(result) = 1
            /\ result[1].skippedContributions = result[1].totalContributions
            /\ \A k \in 1..Len(result[1].trades) :
                   /\ args.useLumpSum /\ k = 1
                   /\ result[1].trades[k].reason = "Final cash allocation")

\* C13 happens: a periodic run without sentiment data deferred a contribution
C13_DeferredWithoutSentiment ==
    /\ pc = "loop" /\ run.i >= 2
    /\ Len(args.fearGreedData) = 0
    /\ ~args.useLumpSum
    /\ run.lastContributionDate = simulatedDay.date
    /\ run.skippedContributions >= 1
    /\ run.debugInfo.noFearGreedData = run.i

\* the trades the step appended to the log
NewTrades == {run'.trades[k] : k \in (Len(run.trades) + 1)..Len(run'.trades)}

\* the cooldown of the run, in days, and the sell cooldown ceil(cooldown / 2)
CooldownDays == determineCooldownPeriod(args.marketData)

SellCooldownDays == (CooldownDays + 1) \div 2

\* the step executed a lump-sum buy or an accumulated-cash release
GatedBuyExecuted ==
    /\ DayTaken
    /\ \E trade \in NewTrades :
          trade.reason \in {"Fear & Greed Index", "Accumulated cash invested"}

\* C14: no lump-sum buy and no accumulated-cash release executes on a day
\* less than cooldown days after the last buy (weekly, release or lump-sum,
\* a weekly buy of the same day included) or less than ceil(cooldown / 2)
\* days after the last sell, the flags being evaluated before the day's sell;
\* two lump-sum buys inside the loop are at least cooldown days apart.
C14_GatedBuysRespectCooldown ==
    /\ [][GatedBuyExecuted =>
            LET date == args.marketData[run.i + 1].date
            IN  /\ \A trade \in NewTrades : trade.reason # "Weekly contribution invested"
                /\ \/ run.lastBuyDate = NullDate
                   \/ date - run.lastBuyDate >= CooldownDays * TicksPerDay
                /\ \/ run.lastSellDate = NullDate
                   \/ date - run.lastSellDate >= SellCooldownDays * TicksPerDay]_vars
    /\ [](pc \in {"loop", "returned"} =>
            \A j, k \in 1..Len(run.trades) :
                (/\ j < k
                 /\ run.trades[j].reason = "Fear & Greed Index"
                 /\ run.trades[k].reason = "Fear & Greed Index")
                => run.trades[k].date - run.trades[j].date >= CooldownDays * TicksPerDay)

\* C14 happens: a lump-sum buy signal with cash at hand, outside the buy
\* cooldown, was suppressed by the sell cooldown alone
C14_SuppressedBySellCooldown ==
    /\ pc = "loop" /\ run.i >= 1
    /\ args.useLumpSum
    /\ shouldBuy(args.strategyVariant, simulatedSentiment.value)
    /\ Gt(run.cash, Zero)
    /\ run.lastBuyDate # NullDate
    /\ simulatedDay.date - run.lastBuyDate >= CooldownDays * TicksPerDay
    /\ run.lastSellDate # NullDate
    /\ simulatedDay.date - run.lastSellDate < SellCooldownDays * TicksPerDay
    /\ run.trades[Len(run.trades)].date < simulatedDay.date

\* C15: after a sell trade executes no further sell trade executes until at
\* least ceil(cooldown / 2) days have elapsed since it, so two sell trades
\* in the log are never closer than the sell-cooldown window.
\* Violated: the sell path (lines 515-562) does not read inSellCooldown.
C15_SellsRespectSellCooldown ==
    pc \in {"loop", "returned"} =>
        \A j, k \in 1..Len(run.trades) :
            (j < k /\ run.trades[j].type = "sell" /\ run.trades[k].type = "sell")
            => run.trades[k].date - run.trades[j].date >= SellCooldownDays * TicksPerDay

\* the day of this step is a contribution day whose resolved sentiment
\* satisfies the fear rule of the variant
ContributionOnFear ==
    LET fearGreedToday == findClosestFearGreedData(args.marketData[run.i + 1].date,
                                                   args.fearGreedData)
    IN  /\ DayTaken
        /\ ContributionDue
        /\ fearGreedToday # NullPoint
        /\ IF args.strategyVariant \in {"default", "combined"}
           THEN fearGreedToday.value <= FEAR_THRESHOLD
           ELSE fearGreedToday.value <= EXTREME_FEAR_THRESHOLD

\* C16: the weekly-contribution buy does not consult the cooldown: on a
\* contribution day whose sentiment satisfies the variant's invest rule the
\* contribution buy executes, inside the buy cooldown of an earlier buy or
\* the sell cooldown of an earlier sell too; that buy restarts the buy
\* cooldown, and no accumulated-cash release executes the same day.
C16_WeeklyBuyIgnoresCooldown ==
    [][ContributionOnFear =>
         LET currentDay == args.marketData[run.i + 1]
         IN  /\ \E trade \in NewTrades :
                   /\ trade.type = "buy"
                   /\ trade.reason = "Weekly contribution invested"
                   /\ trade.date = currentDay.date
             /\ run'.lastBuyDate = currentDay.date
             /\ inBuyCooldown(run', currentDay)
             /\ \A trade \in NewTrades : trade.reason # "Accumulated cash invested"]_vars

\* C16 happens: a contribution was bought inside the sell cooldown of the
\* sell before it and the buy cooldown of the buy before that
C16_BoughtInsideCooldown ==
    /\ pc = "loop" /\ run.i >= 1
    /\ Len(run.trades) >= 3
    /\ LET n == Len(run.trades)
       IN  /\ run.trades[n].reason = "Weekly contribution invested"
           /\ run.trades[n].date = simulatedDay.date
           /\ run.trades[n - 1].type = "sell"
           /\ run.trades[n].date - run.trades[n - 1].date < SellCooldownDays * TicksPerDay
           /\ run.trades[n - 2].type = "buy"
           /\ run.trades[n].date - run.trades[n - 2].date < CooldownDays * TicksPerDay

\* C17: on the weekly path a downtrend vetoes investing: for every variant,
\* in a downtrend with a sentiment value above the extreme-fear threshold
\* shouldInvestWeeklyAmount returns false, also where the variant rule alone
\* would invest (default or combined with sentiment in (20, 40]).
\* Violated: the variant rules return true before the veto of lines 246-249
\* is reached, and what follows the veto returns false anyway.
C17_DowntrendVetoes ==
    (/\ entry = "shouldInvestWeeklyAmount" /\ pc = "returned"
     /\ args.inDowntrend
     /\ args.fearGreedValue # NoValue
     /\ args.fearGreedValue > EXTREME_FEAR_THRESHOLD)
    => result[1] = FALSE

\* C18: in periodic mode a contribution event fires on a day exactly when the
\* day is at least 7 days after lastContributionDate (the first price point's
\* date at first, the day of the event after each event): none on the first
\* day, at most one per price point however large the gap, consecutive events
\* at least 7 days apart, totalContributions counting the events; in lump-sum
\* mode no event fires and totalContributions, skippedContributions and
\* accumulatedCash stay 0.
C18_ContributionSchedule ==
    /\ [](pc = "loop" /\ run.i <= 1 =>
            /\ run.totalContributions = 0
            /\ run.lastContributionDate = args.marketData[1].date)
    /\ [][DayTaken =>
            LET date == args.marketData[run.i + 1].date
            IN  IF /\ ~args.useLumpSum
                   /\ date - run.lastContributionDate >= 7 * TicksPerDay
                THEN /\ run'.totalContributions = run.totalContributions + 1
                     /\ run'.lastContributionDate = date
                     /\ run.totalContributions > 0 =>
                            run'.lastContributionDate - run.lastContributionDate
                                >= 7 * TicksPerDay
                ELSE /\ run'.totalContributions = run.totalContributions
                     /\ run'.lastContributionDate = run.lastContributionDate]_vars
    /\ [](pc \in {"loop", "returned"} /\ args.useLumpSum =>
            /\ run.totalContributions = 0
            /\ run.skippedContributions = 0
            /\ run.accumulatedCash = Zero)
    /\ [](pc = "returned" => result[1].totalContributions = run.totalContributions)

\* C18 happens: a price point more than two weeks after the one before it
\* fired the one contribution event of the run
C18_OneEventAfterLongGap ==
    /\ pc = "loop" /\ run.i >= 2
    /\ ~args.useLumpSum
    /\ simulatedDay.date - args.marketData[run.i - 1].date >= 14 * TicksPerDay
    /\ run.lastContributionDate = simulatedDay.date
    /\ run.totalContributions = 1

\* the step fired a contribution event
ContributionEvent ==
    DayTaken /\ run'.totalContributions = run.totalContributions + 1

\* the contribution accounting of a step
ContributionAccounting ==
    /\ [][ContributionEvent =>
            LET deployed == run'.debugInfo.weeklyContributionsInvested
                                = run.debugInfo.weeklyContributionsInvested + 1
                deferred == run'.skippedContributions = run.skippedContributions + 1
            IN  /\ deployed # deferred
                /\ deployed =>
                       /\ run'.skippedContributions = run.skippedContributions
                       /\ \E trade \in NewTrades :
                              trade.reason = "Weekly contribution invested"
                /\ deferred =>
                       /\ run'.debugInfo.weeklyContributionsInvested
                              = run.debugInfo.weeklyContributionsInvested
                       /\ run'.accumulatedCash
                              = Add(run.accumulatedCash, args.weeklyContribution)]_vars
    /\ [][DayTaken /\ ~ContributionEvent =>
            /\ run'.skippedContributions = run.skippedContributions
            /\ run'.debugInfo.weeklyContributionsInvested
                   = run.debugInfo.weeklyContributionsInvested]_vars

\* C19 as stated: every contribution event is either deployed or deferred,
\* never both or neither: after every simulated day totalContributions =
\* deployed contributions + skippedContributions; a deferral adds exactly one
\* contribution amount to accumulatedCash; accumulatedCash is always a
\* non-negative multiple of the contribution amount, at most
\* skippedContributions * weeklyContribution.
\* Violated: accumulatedCash is a sum rounded at each deferral, which from
\* the sixth deferral on need not be k * weeklyContribution.
C19_DeployedOrDeferred ==
    /\ [](pc \in {"loop", "returned"} =>
            /\ run.totalContributions
                   = run.debugInfo.weeklyContributionsInvested + run.skippedContributions
            /\ Ge(run.accumulatedCash, Zero)
            /\ \E k \in 0..run.skippedContributions :
                   run.accumulatedCash = Mul(FromInt(k), args.weeklyContribution))
    /\ ContributionAccounting

RECURSIVE RepeatedSum(_, _)
\* amount added k times to 0, one rounded addition at a time
RepeatedSum(k, amount) ==
    IF k = 0 THEN Zero ELSE Add(RepeatedSum(k - 1, amount), amount)

\* C19, amended: every contribution event is either deployed or deferred,
\* never both or neither: after every simulated day totalContributions =
\* deployed contributions + skippedContributions; a deferral adds exactly one
\* contribution amount to accumulatedCash; accumulatedCash is always the
\* non-negative sum of k contribution amounts added one at a time, for a
\* k <= skippedContributions, which is k * weeklyContribution up to rounding
\* (exactly for the default amount 500).
C19_DeployedOrDeferredSum ==
    /\ [](pc \in {"loop", "returned"} =>
            /\ run.totalContributions
                   = run.debugInfo.weeklyContributionsInvested + run.skippedContributions
            /\ Ge(run.accumulatedCash, Zero)
            /\ \E k \in 0..run.skippedContributions :
                   /\ run.accumulatedCash = RepeatedSum(k, args.weeklyContribution)
                   /\ args.weeklyContribution = FromInt(DEFAULT_WEEKLY_CONTRIBUTION) =>
                          run.accumulatedCash = Mul(FromInt(k), args.weeklyContribution))
    /\ ContributionAccounting

\* C19 happens: six contributions were deferred in a row and their sum is
\* not 6 * weeklyContribution
C19_SixDeferrals ==
    /\ pc = "loop"
    /\ run.skippedContributions = 6
    /\ run.totalContributions = 6
    /\ run.accumulatedCash = RepeatedSum(6, args.weeklyContribution)
    /\ run.accumulatedCash # Mul(FromInt(6), args.weeklyContribution)

\* the step deployed the contribution that fell due
ContributionDeployed ==
    /\ ContributionEvent
    /\ run'.debugInfo.weeklyContributionsInvested
           = run.debugInfo.weeklyContributionsInvested + 1

\* the amount the step deployed: the contribution, doubled on extreme fear,
\* plus the accumulated cash folded in on extreme fear
DeployedAmount ==
    LET fearGreedToday == findClosestFearGreedData(args.marketData[run.i + 1].date,
                                                   args.fearGreedData)
        contribution == IF shouldInvestDouble(fearGreedToday.value)
                        THEN Mul(args.weeklyContribution, FromInt(2))
                        ELSE args.weeklyContribution
    IN  IF /\ fearGreedToday.value # NoValue
           /\ fearGreedToday.value <= EXTREME_FEAR_THRESHOLD
           /\ Gt(run.accumulatedCash, Zero)
        THEN Add(contribution, run.accumulatedCash)
        ELSE contribution

\* C20: when a weekly contribution is deployed, the buy trade executed for
\* it has value equal to the full deployed amount: the contribution amount,
\* doubled when sentiment <= extreme-fear threshold, plus the accumulated
\* cash folded in (only when sentiment <= extreme-fear threshold and
\* accumulatedCash > 0, which then becomes 0); also when the ledger holds
\* cash from an earlier sell.
\* Violated: the buy spends the whole cash balance, sell proceeds included.
C20_TradeValueIsDeployedAmount ==
    [][ContributionDeployed =>
        /\ \E trade \in NewTrades :
               /\ trade.reason = "Weekly contribution invested"
               /\ trade.value = DeployedAmount
        /\ DeployedAmount # (IF shouldInvestDouble(simulatedSentiment'.value)
                             THEN Mul(args.weeklyContribution, FromInt(2))
                             ELSE args.weeklyContribution)
              => run'.accumulatedCash = Zero]_vars

\* the day the step simulates, and its sentiment
steppedDay == args.marketData[run.i + 1]

steppedSentiment == findClosestFearGreedData(steppedDay.date, args.fearGreedData)

\* the step simulates a day whose sentiment is at or below the extreme-fear threshold
ExtremeFearDay ==
    /\ DayTaken
    /\ steppedSentiment # NullPoint
    /\ steppedSentiment.value <= EXTREME_FEAR_THRESHOLD

\* C21: in periodic mode, for every variant, at the end of any day whose
\* sentiment is <= the extreme-fear threshold and which is not in cooldown,
\* accumulatedCash is 0: what was accumulated went that day, by the weekly
\* fold-in or by the release, into a buy trade at that day's close, on a
\* contribution day or not; the release never runs in lump-sum mode.
C21_ExtremeFearReleasesAll ==
    /\ [][/\ ExtremeFearDay
           /\ ~args.useLumpSum
           /\ ~inBuyCooldown(run, steppedDay)
           /\ ~inSellCooldown(run, steppedDay)
           => /\ run'.accumulatedCash = Zero
              /\ Gt(run.accumulatedCash, Zero) =>
                     /\ \E trade \in NewTrades :
                            /\ trade.type = "buy"
                            /\ trade.date = steppedDay.date
                            /\ trade.price = steppedDay.close
                            /\ trade.reason = IF ContributionEvent
                                              THEN "Weekly contribution invested"
                                              ELSE "Accumulated cash invested"
                     /\ run'.injected # run.injected]_vars
    /\ [](pc \in {"loop", "returned"} /\ args.useLumpSum =>
            /\ run.accumulatedCash = Zero
            /\ \A k \in 1..Len(run.trades) :
                   run.trades[k].reason # "Accumulated cash invested")

\* C21 happens: cash deferred on a contribution day was released on a later
\* day that is no contribution day
C21_ReleasedOffContributionDay ==
    /\ pc = "loop"
    /\ ~args.useLumpSum
    /\ run.skippedContributions >= 1
    /\ run.accumulatedCash = Zero
    /\ Len(run.trades) >= 1
    /\ run.trades[Len(run.trades)].reason = "Accumulated cash invested"
    /\ run.trades[Len(run.trades)].date = simulatedDay.date
    /\ run.lastContributionDate # simulatedDay.date

\* the last price point of the run
lastPricePoint == args.marketData[Len(args.marketData)]

\* C22: after the day loop any cash > 0 goes into exactly one final buy
\* trade at the last price point's close, whatever the sentiment and the
\* cooldown, so every completed run ends with cash = 0 and finalValue =
\* shares * lastPrice + accumulatedCash; in lump-sum mode with
\* initialCapital > 0 the final sweep always happens, so the trade log is
\* non-empty and its last trade is the final-sweep buy.
\* Violated: the sweep subtracts (cash / close) * close, which need not be cash.
C22_FinalSweepEmptiesCash ==
    /\ [][pc = "loop" /\ pc' = "returned" /\ Gt(run.cash, Zero) =>
            /\ Len(run'.trades) = Len(run.trades) + 1
            /\ \E trade \in NewTrades :
                   /\ trade.type = "buy"
                   /\ trade.price = lastPricePoint.close
                   /\ trade.reason = "Final cash allocation"]_vars
    /\ [](pc = "returned" =>
            /\ run.cash = Zero
            /\ result[1].finalValue
                   = Add(Mul(run.shares, lastPricePoint.close), run.accumulatedCash)
            /\ args.useLumpSum /\ Gt(args.initialCapital, Zero) =>
                   /\ Len(run.trades) >= 1
                   /\ run.trades[Len(run.trades)].reason = "Final cash allocation")

\* the sentiment of the stepped day meets the variant's sell condition
GreedCondition ==
    /\ steppedSentiment # NullPoint
    /\ \/ args.strategyVariant = "default" /\ steppedSentiment.value >= 85
       \/ args.strategyVariant = "extreme-only" /\ steppedSentiment.value >= 80
       \/ args.strategyVariant = "combined"
          /\ (steppedSentiment.value >= 85 \/ steppedSentiment.value >= 80)

\* the close of the stepped day is at least 10% above the last buy price:
\* 10 * close >= 11 * lastBuyPrice
ProfitOverLastBuy ==
    /\ run.lastBuyPrice # NullNumber
    /\ Ge(Mul(steppedDay.close, FromInt(10)), Mul(run.lastBuyPrice, FromInt(11)))

\* C23: a sell trade executes on a day only if the variant's sentiment
\* condition holds (default: value >= 85; extreme-only: value >= 80; combined:
\* value >= 85 or >= 80) and the day's close is at least 10% above the price
\* of the most recent buy (lastBuyPrice); when the sentiment condition holds
\* but the profit is below 10%, no sell occurs and cash and shares are unchanged.
C23_SellNeedsGreedAndProfit ==
    [][DayTaken =>
        /\ (SellExecuted \/ \E trade \in NewTrades : trade.type = "sell")
              => GreedCondition /\ ProfitOverLastBuy
        /\ GreedCondition /\ ~ProfitOverLastBuy
              => /\ ~SellExecuted
                 /\ run'.trades = run.trades
                 /\ run'.cash = run.cash
                 /\ run'.shares = run.shares]_vars

\* C23 happens: extreme-only sold at sentiment 80 with the close exactly 10%
\* above the last buy price
C23_SoldAtTenPercent ==
    /\ pc = "loop"
    /\ args.strategyVariant = "extreme-only"
    /\ Len(run.trades) >= 1
    /\ run.trades[Len(run.trades)].type = "sell"
    /\ run.trades[Len(run.trades)].date = simulatedDay.date
    /\ simulatedSentiment.value = EXTREME_GREED_THRESHOLD
    /\ simulatedDay.close = FromInt(11)
    /\ run.lastBuyPrice = FromInt(10)

\* the integer a whole-number close stands for
IntegerOf(x) == x.m * Pow2(x.e)

RECURSIVE TotalOfCloses(_, _, _)
\* the exact sum of the whole-number closes data[from..to]
TotalOfCloses(data, from, to) ==
    IF from > to THEN 0
    ELSE IntegerOf(data[to].close) + TotalOfCloses(data, from, to - 1)

\* the close at the (1-based) position k is strictly below the mean of the
\* TREND_MA_PERIOD closes ending at k, and k has TREND_MA_PERIOD points before it
BelowAverage(data, k) ==
    /\ k - 1 >= TREND_MA_PERIOD
    /\ TREND_MA_PERIOD * IntegerOf(data[k].close)
          < TotalOfCloses(data, k - TREND_MA_PERIOD + 1, k)

\* the sentiment of the stepped day meets the variant's buy condition
FearCondition ==
    /\ steppedSentiment # NullPoint
    /\ IF args.strategyVariant \in {"default", "combined"}
       THEN steppedSentiment.value <= 40
       ELSE steppedSentiment.value <= 20

\* the step recorded a buy
BuyRecorded == \E trade \in NewTrades : trade.type = "buy"

\* C24: in lump-sum mode an in-loop buy executes on a day only if the
\* variant's fear condition holds, cash > 0, the day is not in cooldown, and
\* (the variant is extreme-fear-hold, or the day is not in a downtrend, or
\* sentiment <= the extreme-fear threshold); for default and combined no
\* in-loop buy occurs on a downtrend day with sentiment in (20, 40].
C24_LumpSumBuyGuards ==
    [][DayTaken /\ args.useLumpSum =>
        /\ BuyRecorded =>
              /\ FearCondition
              /\ Gt(run.cash, Zero)
              /\ ~inBuyCooldown(run, steppedDay)
              /\ ~inSellCooldown(run, steppedDay)
              /\ \/ args.strategyVariant = "extreme-fear-hold"
                 \/ ~BelowAverage(args.marketData, run.i + 1)
                 \/ steppedSentiment.value <= 20
        /\ (/\ args.strategyVariant \in {"default", "combined"}
            /\ BelowAverage(args.marketData, run.i + 1)
            /\ steppedSentiment.value > 20
            /\ steppedSentiment.value <= 40) => ~BuyRecorded]_vars

\* C24 happens: the default variant, out of cooldown and holding all its
\* cash, bought nothing on a downtrend day with sentiment 30
C24_VetoedByDowntrend ==
    /\ pc = "loop"
    /\ args.useLumpSum
    /\ args.strategyVariant = "default"
    /\ run.i = TREND_MA_PERIOD + 1
    /\ BelowAverage(args.marketData, run.i)
    /\ simulatedSentiment.value = 30
    /\ run.trades = << >>
    /\ run.cash = args.initialCapital

\* f = max(0, fearThreshold - sentiment) / fearThreshold
FearSeverity(value) == Div(FromInt(Max(0, 40 - value)), FromInt(40))

\* 40% + f * 30% at or below the extreme-fear threshold, 40% + f * 10% above it
AllocationFor(value) ==
    IF value <= 20
    THEN Add(Lit(4, 10), Mul(FearSeverity(value), Lit(3, 10)))
    ELSE Add(Lit(4, 10), Mul(FearSeverity(value), Lit(1, 10)))

\* 70%, as the sum 40% + 30% (which is 0.7 in binary64)
SeventyPercent == Add(Lit(4, 10), Lit(3, 10))

\* the step is a day of a lump-sum run that recorded a buy
LumpSumBuyExecuted == DayTaken /\ args.useLumpSum /\ BuyRecorded

\* C25 as stated: each in-loop lump-sum buy spends cash * allocation, where
\* f = max(0, fearThreshold - sentiment) / fearThreshold lies in [0, 1) for
\* every sentiment value 0..100, allocation = 40% + f * 30% when sentiment <=
\* extreme-fear threshold and 40% + f * 10% otherwise; allocation lies in
\* [40%, 70%] and the buy leaves cash strictly positive.
\* Violated: f = 1 at sentiment 0, and the buy spends
\* (cash * allocation / close) * close, which is rounded twice more.
C25_AllocationBelowOne ==
    /\ [](\A value \in 0..100 :
            Ge(FearSeverity(value), Zero) /\ Lt(FearSeverity(value), FromInt(1)))
    /\ [][LumpSumBuyExecuted =>
            LET trade == run'.trades[Len(run'.trades)]
                allocation == AllocationFor(steppedSentiment.value)
            IN  /\ trade.value = Mul(run.cash, allocation)
                /\ Ge(allocation, Lit(4, 10)) /\ Le(allocation, SeventyPercent)
                /\ run'.cash = Sub(run.cash, trade.value)
                /\ Gt(run'.cash, Zero)]_vars

\* C25, amended: f lies in [0, 1] for every sentiment value 0..100, with
\* f = 1 exactly at sentiment 0 and f = 0 from the fear threshold on; each
\* in-loop lump-sum buy buys cash * allocation / close shares and spends
\* shares * close, which is cash * allocation up to rounding (within
\* cash * 2^(2 - Precision)); allocation is 40% + f * 30% when sentiment <=
\* extreme-fear threshold and 40% + f * 10% otherwise, lies in [40%, 70%],
\* and the buy leaves cash strictly positive.
C25_LumpSumBuySizing ==
    /\ [](\A value \in 0..100 :
            /\ Ge(FearSeverity(value), Zero) /\ Le(FearSeverity(value), FromInt(1))
            /\ FearSeverity(value) = FromInt(1) <=> value = 0
            /\ FearSeverity(value) = Zero <=> value >= 40)
    /\ [][LumpSumBuyExecuted =>
            LET trade == run'.trades[Len(run'.trades)]
                allocation == AllocationFor(steppedSentiment.value)
                cashToSpend == Mul(run.cash, allocation)
                difference == Sub(trade.value, cashToSpend)
                tolerance == Mul(run.cash, Div(FromInt(4), FromInt(Pow2(Precision))))
            IN  /\ Len(run'.trades) = Len(run.trades) + 1
                /\ trade.shares = Div(cashToSpend, steppedDay.close)
                /\ trade.value = Mul(trade.shares, steppedDay.close)
                /\ Le(difference, tolerance) /\ Le(Neg(difference), tolerance)
                /\ Ge(allocation, Lit(4, 10)) /\ Le(allocation, SeventyPercent)
                /\ run'.cash = Sub(run.cash, trade.value)
                /\ Gt(run'.cash, Zero)]_vars

\* C25 happens: a lump-sum buy at sentiment 0, where f = 1 and the
\* allocation is 70%, has left cash
C25_BoughtAtSentimentZero ==
    /\ pc = "loop"
    /\ args.useLumpSum
    /\ run.i = 1
    /\ simulatedSentiment.value = 0
    /\ FearSeverity(simulatedSentiment.value) = FromInt(1)
    /\ AllocationFor(simulatedSentiment.value) = SeventyPercent
    /\ Len(run.trades) = 1
    /\ run.trades[1].type = "buy"
    /\ Gt(run.cash, Zero)

\* the cooldown of a series whose first count gaps add up to total ticks
CooldownClass(total, count) ==
    IF total > 20 * count * TicksPerDay THEN 1
    ELSE IF total > 5 * count * TicksPerDay THEN 3
    ELSE 15

\* C26: determineCooldownPeriod returns 20 for fewer than 2 price points, and
\* otherwise classifies the average, in days, of up to the first 10
\* consecutive gaps between price points (all gaps when there are fewer):
\* average > 20 -> 1, average in (5, 20] -> 3, average <= 5 -> 15; for a
\* series of 11 or more points the 10th gap contributes to the average.
\* Violated: the loop of lines 194-201 stops after the 9th gap.
C26_AverageOfTenGaps ==
    entry = "determineCooldownPeriod" /\ pc = "returned" =>
        LET marketData == args
            count == Min(10, Len(marketData) - 1)
        IN  result[1] = IF Len(marketData) < 2 THEN 20
                        ELSE CooldownClass(marketData[count + 1].date - marketData[1].date,
                                           count)

\* the positions of the points on the calendar day of date
SameDay(date, fearGreedData) ==
    {j \in 1..Len(fearGreedData) :
        fearGreedData[j].date \div TicksPerDay = date \div TicksPerDay}

\* the positions of the points nearest in time to date
Nearest(date, fearGreedData) ==
    {j \in 1..Len(fearGreedData) :
        \A h \in 1..Len(fearGreedData) :
            Abs(fearGreedData[j].date - date) <= Abs(fearGreedData[h].date - date)}

\* the lowest position of a non-empty set of positions
Lowest(positions) == CHOOSE j \in positions : \A h \in positions : j <= h

C28_BelowFiftyPeriodAverage ==
    entry = "isInDowntrend" /\ pc = "returned" =>
        /\ args.currentIndex < 50 => result[1] = FALSE
        /\ args.currentIndex >= 50 =>
               result[1] = BelowAverage(args.data, args.currentIndex + 1)

RECURSIVE BaselineShares(_, _, _, _, _)
\* the shares of an investor who, from the (1-based) position k on, buys for
\* weeklyContribution at the close of every contribution event
BaselineShares(marketData, k, lastContributionDate, weeklyContribution, shares) ==
    IF k > Len(marketData) THEN shares
    ELSE IF marketData[k].date - lastContributionDate >= 7 * TicksPerDay
    THEN BaselineShares(marketData, k + 1, marketData[k].date, weeklyContribution,
                        Add(shares, Div(weeklyContribution, marketData[k].close)))
    ELSE BaselineShares(marketData, k + 1, lastContributionDate, weeklyContribution, shares)

\* the buy and hold shares of the run, from its price data, mode and amounts
AlwaysInvestShares ==
    IF args.useLumpSum THEN Div(args.initialCapital, args.marketData[1].close)
    ELSE BaselineShares(args.marketData, 1, args.marketData[1].date,
                        args.weeklyContribution, Zero)

\* totalInvested of the run on the same price data and mode with no sentiment
\* data: every contribution is deferred and the sum is added at the end
InvestedWithoutSentiment ==
    IF args.useLumpSum THEN args.initialCapital
    ELSE RepeatedSum(run.totalContributions, args.weeklyContribution)

RECURSIVE TradedValue(_, _, _)
\* the sum of value over the first k trades of the given type, added in the
\* order of the log
TradedValue(trades, type, k) ==
    IF k = 0 THEN Zero
    ELSE IF trades[k].type = type
         THEN Add(TradedValue(trades, type, k - 1), trades[k].value)
         ELSE TradedValue(trades, type, k - 1)

RECURSIVE TradedShares(_, _, _)
\* the sum of shares over the first k trades of the given type
TradedShares(trades, type, k) ==
    IF k = 0 THEN Zero
    ELSE IF trades[k].type = type
         THEN Add(TradedShares(trades, type, k - 1), trades[k].shares)
         ELSE TradedShares(trades, type, k - 1)

\* the number of trades of the given type in the log
TradeCount(trades, type) ==
    Cardinality({k \in 1..Len(trades) : trades[k].type = type})

\* cash as the trade log and the injected money give it
LedgerCash ==
    Add(Sub(run.injected, TradedValue(run.trades, "buy", Len(run.trades))),
        TradedValue(run.trades, "sell", Len(run.trades)))

\* shares as the trade log gives them
LedgerShares ==
    Sub(TradedShares(run.trades, "buy", Len(run.trades)),
        TradedShares(run.trades, "sell", Len(run.trades)))

\* every trade is priced at the close of its day, value = price * shares, and
\* the debug counters count the trades of the log
TradesWellFormed ==
    /\ \A k \in 1..Len(run.trades) :
           /\ run.trades[k].value = Mul(run.trades[k].price, run.trades[k].shares)
           /\ \E j \in 1..Len(args.marketData) :
                  /\ args.marketData[j].date = run.trades[k].date
                  /\ args.marketData[j].close = run.trades[k].price
    /\ run.debugInfo.executedBuys = TradeCount(run.trades, "buy")
    /\ run.debugInfo.executedSells = TradeCount(run.trades, "sell")

\* C30 as stated: after every day and after the final sweep, cash = injected
\* - (sum of value over buy trades) + (sum of value over sell trades) and
\* shares = (sum of shares over buys) - (sum of shares over sells); every
\* trade has value = price * shares at the close of its day, and
\* executedBuys / executedSells count the buy / sell trades of the log.
\* Violated: cash and shares are running results rounded at every trade, and
\* the sums over the log round differently.
C30_LedgerConservation ==
    pc \in {"loop", "returned"} =>
        /\ run.cash = LedgerCash
        /\ run.shares = LedgerShares
        /\ TradesWellFormed

\* x and y differ by at most ops * 2^(1 - Precision) of scale
WithinRounding(x, y, scale, ops) ==
    LET difference == Sub(x, y)
        tolerance == Mul(scale, Div(FromInt(2 * ops), FromInt(Pow2(Precision))))
    IN  Le(difference, tolerance) /\ Le(Neg(difference), tolerance)

\* C30, amended: after every day and after the final sweep, cash and shares
\* equal the sums over the injected money and the trade log up to the rounding
\* of one floating-point operation per trade and injection (relative to the
\* money that entered the ledger, resp. the shares bought), and exactly when
\* the log has at most one trade; every trade has value = price * shares at
\* the close of its day, and executedBuys / executedSells count the buy / sell
\* trades of the log.
C30_LedgerConservationRounded ==
    pc \in {"loop", "returned"} =>
        LET n == Len(run.trades)
            inflow == Add(run.injected, TradedValue(run.trades, "sell", n))
            bought == TradedShares(run.trades, "buy", n)
        IN  /\ WithinRounding(run.cash, LedgerCash, inflow, n + 1)
            /\ WithinRounding(run.shares, LedgerShares, bought, n + 1)
            /\ n <= 1 => run.cash = LedgerCash /\ run.shares = LedgerShares
            /\ TradesWellFormed

\* C30 happens: a run that bought, sold and bought again returned with cash
\* and shares that are not the sums over its log
C30_RoundedLedger ==
    /\ pc = "returned"
    /\ TradeCount(run.trades, "buy") >= 2
    /\ TradeCount(run.trades, "sell") >= 1
    /\ TradesWellFormed
    /\ run.cash # LedgerCash \/ run.shares # LedgerShares

(***************************************************************************)
(* C31: totalInvested counts every contribution event once.                *)
(***************************************************************************)
\* other values of initialCapital a caller can pass
OtherCapitals == {Zero, FromInt(7)}

\* totalInvested of the run on the same arguments with another initialCapital
InvestedWithCapital(capital) ==
    runBacktest([args EXCEPT !.initialCapital = capital]).totalInvested

\* totalInvested does not depend on initialCapital
CapitalIgnored ==
    \A capital \in OtherCapitals : result[1].totalInvested = InvestedWithCapital(capital)

AscendingSeries ==
    \A j \in 1..(Len(args.marketData) - 1) :
        args.marketData[j].date <= args.marketData[j + 1].date

\* the log after the step is the log before it with trades appended
LogExtended ==
    /\ Len(run'.trades) >= Len(run.trades)
    /\ SubSeq(run'.trades, 1, Len(run.trades)) = run.trades

\* trade dates are non-decreasing along the log
Chronological ==
    \A k \in 1..(Len(run.trades) - 1) : run.trades[k].date <= run.trades[k + 1].date

\* every sell trade has a buy trade before it in the log
SellsFollowBuys ==
    \A k \in 1..Len(run.trades) :
        run.trades[k].type = "sell" =>
            \E j \in 1..(k - 1) : run.trades[j].type = "buy"

\* the dates that have both a sell and a buy in the log
MixedDays ==
    {run.trades[k].date : k \in {k \in 1..Len(run.trades) :
        /\ run.trades[k].type = "sell"
        /\ \E j \in 1..Len(run.trades) :
               /\ run.trades[j].type = "buy"
               /\ run.trades[j].date = run.trades[k].date}}

\* C32: the trade log is append-only and chronological: across any run its
\* length never decreases and earlier entries never change, trade dates are
\* non-decreasing for an ascending price series, every sell trade is preceded
\* in the log by at least one buy trade, and with the default thresholds no
\* single day other than the last contains both a sell and a buy.
C32_AppendOnlyChronologicalLog ==
    /\ [][pc = "loop" => LogExtended]_vars
    /\ [](pc \in {"loop", "returned"} =>
            /\ AscendingSeries => Chronological
            /\ SellsFollowBuys
            /\ FEAR_THRESHOLD = DEFAULT_FEAR_THRESHOLD
               /\ GREED_THRESHOLD = DEFAULT_GREED_THRESHOLD =>
                   MixedDays \subseteq {lastPricePoint.date})

\* C32 happens: a run on an ascending series bought, sold on a later day that
\* is the last, and swept the proceeds into a buy on that same day
C32_SoldAndSweptOnLastDay ==
    /\ pc = "returned"
    /\ AscendingSeries
    /\ Len(run.trades) >= 3
    /\ run.trades[1].type = "buy"
    /\ run.trades[1].date < lastPricePoint.date
    /\ MixedDays = {lastPricePoint.date}
    /\ Chronological
====
